---- MODULE Spec2Model ----
(***************************************************************************)
(* A model of the learning copilot's completion adapter                    *)
(* (backend/ai_engine.py), of the structured-output operations built on    *)
(* it (backend/ai_engine.py, backend/curriculum.py) and of the path        *)
(* creation and scaffold handlers of the page (app.py).                    *)
(*                                                                         *)
(* Python values are encoded as follows.  Optional[x]: None is <<>>, a     *)
(* value x is <<x>>.  A str that the code inspects (the model identifier)  *)
(* is a sequence of characters; an error message is a sequence of words.   *)
(* A float temperature is counted in tenths (0.7 is 7).  A dict with       *)
(* string keys is a function from its keys.                                *)
(***************************************************************************)
EXTENDS Integers, Sequences, FiniteSets, TLC

\* ------------------------------------------------------------------ bounds

\* The longest error message of the completion service, in words.
MaxErrLen == 2

\* The most members an object returned by the service has.
MaxPairs == 2

\* The most learning paths created.
MaxPaths == 2

\* The most rows the progress table gets in the specification of parallel
\* sessions.
MaxProgressRows == 3

\* The most rows the chat_history table gets.
MaxChat == 3

\* The last second the clock reaches.
MaxClock == 1

\* The most temporary files left on disk.
MaxTmpFiles == 2

\* The most experiments started in a session.
MaxExperiments == 2

\* ------------------------------------------------------- python primitives

None == <<>>

Some(x) == <<x>>

\* str.startswith(prefix)
StartsWith(s, prefix) ==
    /\ Len(s) >= Len(prefix)
    /\ SubSeq(s, 1, Len(prefix)) = prefix

\* `opt or default` for an Optional number: None and 0 are both falsy.
NumOr(opt, default) ==
    IF opt # None /\ opt[1] # 0 THEN opt[1] ELSE default

\* bool(d) for an Optional dict: None and the empty dict are both falsy.
DictTruthy(opt) ==
    opt # None /\ DOMAIN opt[1] # {}

\* `word in str(e)`: the message mentions the word.
Mentions(msg, word) ==
    \E i \in DOMAIN msg : msg[i] = word

\* ------------------------------------------------------------ input sets

GPT5 == <<"g", "p", "t", "-", "5">>

O1 == <<"o", "1">>

\* Model identifiers that may be configured (MODEL_NAME).
ModelNames ==
    { GPT5,
      GPT5 \o <<"-", "m">>,
      O1,
      O1 \o <<"-", "m">>,
      <<"g", "p", "t", "-", "4">>,
      <<"g", "p", "t">>,
      <<"o", "3">> }

\* The words an error message of the service is made of.
ErrWords == {"max_tokens", "max_completion_tokens", "unsupported"}

SeqsUpTo(S, n) == UNION { [1..k -> S] : k \in 0..n }

ErrorMessages == SeqsUpTo(ErrWords, MaxErrLen)

JsonObjectFormat == [type |-> "json_object"]

EmptyDict == <<>>

SystemMsg == [role |-> "system", content |-> "framing"]

UserMsg == [role |-> "user", content |-> "prompt"]

AssistantMsg == [role |-> "assistant", content |-> "reply"]

\* ------------------------------------------------------- json.loads/dumps

(***************************************************************************)
(* A text is a sequence of tokens, each a sequence of characters: the      *)
(* punctuation of JSON, a run of whitespace, a string literal (a word      *)
(* between quotes), a number literal, an array literal (the array with     *)
(* the module m1 is written [m1]).  A Python value is tagged: [t |-> "str", v |-> content],       *)
(* [t |-> "num", v |-> digits], [t |-> "list", v |-> elements],            *)
(* [t |-> "dict", v |-> items], the items being <<key, value>> pairs with  *)
(* distinct keys, in insertion order.                                      *)
(***************************************************************************)
LBRACE == <<"{">>

RBRACE == <<"}">>

COLON == <<":">>

COMMA == <<",">>

WS == <<" ">>

PyStr(content) == [t |-> "str", v |-> content]

PyNum(digits) == [t |-> "num", v |-> digits]

PyList(elements) == [t |-> "list", v |-> elements]

PyDict(items) == [t |-> "dict", v |-> items]

\* The words of the strings that are written to or read from JSON.
Words ==
    { "error", "title", "T", "id", "m1", "modules", "starter_code",
      "generated_from", "input_topic", "level", "topic", "beginner",
      "intermediate", "syllabus", "syllabus_structure", "topics",
      "prerequisites", "learning_outcomes", "schedule", "raw_content",
      "github", "repository", "name", "url", "language" }

\* The string literal of a word: the word between double quotes.
Quote(word) == <<"\"", word, "\"">>

StrLits == { Quote(w) : w \in Words }

\* The str a string literal denotes.
Unquote(lit) == lit[2]

NumLits == {<<"0">>, <<"1">>}

\* The one module the curricula of the model have.
Module1 ==
    PyDict(<< <<"id", PyStr(<<"m1">>)>>,
              <<"title", PyStr(<<"T">>)>>,
              <<"projects", PyList(<< PyDict(<< <<"name", PyStr(<<"p1">>)>> >>) >>)>> >>)

\* The array literals, and the list each one denotes.
ListOf ==
    (<<"[", "]">> :> PyList(<<>>)) @@ (<<"[", "m1", "]">> :> PyList(<<Module1>>))

ListLits == DOMAIN ListOf

Keys(d) == { d.v[i][1] : i \in DOMAIN d.v }

\* d[key], for a key of d
Get(d, key) == d.v[CHOOSE i \in DOMAIN d.v : d.v[i][1] = key][2]

\* d[key] = value: in place for a key d has, appended otherwise
Put(d, key, value) ==
    IF key \in Keys(d)
    THEN PyDict([ i \in DOMAIN d.v |->
                    IF d.v[i][1] = key THEN <<key, value>> ELSE d.v[i] ])
    ELSE PyDict(Append(d.v, <<key, value>>))

\* a == b in Python: dicts compare by their items whatever the order
RECURSIVE PyEq(_, _)
PyEq(a, b) ==
    IF a.t = "dict" /\ b.t = "dict"
    THEN /\ Keys(a) = Keys(b)
         /\ \A k \in Keys(a) : PyEq(Get(a, k), Get(b, k))
    ELSE a = b

IsScalarLit(tok) == tok \in StrLits \cup NumLits \cup ListLits

DecodeScalar(tok) ==
    IF tok \in StrLits THEN PyStr(<<Unquote(tok)>>)
    ELSE IF tok \in ListLits THEN ListOf[tok]
    ELSE PyNum(tok)

Decoded(value) == [ok |-> TRUE, value |-> value]

JSONDecodeError == [ok |-> FALSE]

\* A value parsed, with the position after it.
Parsed(value, next) == [ok |-> TRUE, value |-> value, next |-> next]

\* The first position from i on that holds no whitespace.
RECURSIVE SkipWs(_, _)
SkipWs(text, i) ==
    IF i <= Len(text) /\ text[i] = WS THEN SkipWs(text, i + 1) ELSE i

\* The token at position i; past the end, the empty token.
TokenAt(text, i) == IF i \in DOMAIN text THEN text[i] ELSE <<>>

RECURSIVE ParseValue(_, _)
RECURSIVE ParseMembers(_, _, _, _)

\* The members of an object from position i on (whitespace skipped); a
\* closing brace is accepted in place of the first member only.  A key that
\* repeats keeps its place and takes the later value.
ParseMembers(text, i, d, first) ==
    IF first /\ TokenAt(text, i) = RBRACE
    THEN Parsed(d, i + 1)
    ELSE
        LET colon == SkipWs(text, i + 1)
            val   == ParseValue(text, SkipWs(text, colon + 1))
            sep   == SkipWs(text, val.next)
        IN  IF /\ TokenAt(text, i) \in StrLits
               /\ TokenAt(text, colon) = COLON
               /\ val.ok
            THEN LET d2 == Put(d, Unquote(text[i]), val.value)
                 IN  IF TokenAt(text, sep) = COMMA
                     THEN ParseMembers(text, SkipWs(text, sep + 1), d2, FALSE)
                     ELSE IF TokenAt(text, sep) = RBRACE
                     THEN Parsed(d2, sep + 1)
                     ELSE JSONDecodeError
            ELSE JSONDecodeError

\* The value that starts at position i (whitespace skipped).
ParseValue(text, i) ==
    IF IsScalarLit(TokenAt(text, i))
    THEN Parsed(DecodeScalar(text[i]), i + 1)
    ELSE IF TokenAt(text, i) = LBRACE
    THEN ParseMembers(text, SkipWs(text, i + 1), PyDict(<<>>), TRUE)
    ELSE JSONDecodeError

\* json.loads(text): the decoded value, or JSONDecodeError; after the value
\* only whitespace may follow.
Loads(text) ==
    LET r == ParseValue(text, SkipWs(text, 1))
    IN  IF r.ok /\ SkipWs(text, r.next) > Len(text)
        THEN Decoded(r.value)
        ELSE JSONDecodeError

RECURSIVE Dumps(_)
RECURSIVE DumpsItems(_)

\* The members of json.dumps(d): `key: value` joined by `, `.
DumpsItems(items) ==
    IF items = <<>> THEN <<>>
    ELSE LET member == <<Quote(items[1][1]), COLON, WS>> \o Dumps(items[1][2])
         IN  IF Len(items) = 1 THEN member
             ELSE member \o <<COMMA, WS>> \o DumpsItems(Tail(items))

\* json.dumps(value), for a value made of the words, numbers and lists above
Dumps(value) ==
    IF value.t = "dict" THEN <<LBRACE>> \o DumpsItems(value.v) \o <<RBRACE>>
    ELSE IF value.t = "str" THEN << <<"\"">> \o value.v \o <<"\"">> >>
    ELSE IF value.t = "list" THEN <<CHOOSE lit \in ListLits : ListOf[lit] = value>>
    ELSE <<value.v>>

\* --------------------------------------------- texts the service returns

JsonKeys == {"error", "title"}

JsonValueLits == {Quote("T"), <<"1">>}

\* An object written without whitespace.
RECURSIVE CompactItems(_)
CompactItems(pairs) ==
    IF pairs = <<>> THEN <<>>
    ELSE LET member == <<Quote(pairs[1][1]), COLON, pairs[1][2]>>
         IN  IF Len(pairs) = 1 THEN member
             ELSE member \o <<COMMA>> \o CompactItems(Tail(pairs))

\* An object written the way json.dumps spaces it.
RECURSIVE SpacedItems(_)
SpacedItems(pairs) ==
    IF pairs = <<>> THEN <<>>
    ELSE LET member == <<Quote(pairs[1][1]), COLON, WS, pairs[1][2]>>
         IN  IF Len(pairs) = 1 THEN member
             ELSE member \o <<COMMA, WS>> \o SpacedItems(Tail(pairs))

MemberLists == SeqsUpTo(JsonKeys \X JsonValueLits, MaxPairs)

\* Complete documents: objects of up to MaxPairs members (a key may repeat),
\* compact or spaced, and the bare scalars.
Documents ==
    { <<LBRACE>> \o CompactItems(ps) \o <<RBRACE>> : ps \in MemberLists }
        \cup { <<LBRACE>> \o SpacedItems(ps) \o <<RBRACE, WS>> : ps \in MemberLists }
        \cup { <<lit>> : lit \in JsonValueLits \cup {Quote("error")} }

\* What the service may return: a document, a document cut short anywhere,
\* a document with something after it.
Texts ==
    UNION { { SubSeq(doc, 1, n) : n \in 0..Len(doc) } : doc \in Documents }
        \cup { doc \o <<RBRACE>> : doc \in Documents }
        \cup { doc \o <<COMMA>> : doc \in Documents }

\* ------------------------------------------------------------------ state

VARIABLES
    engine,      \* AIEngine: [model, temperature, max_tokens]
    pc,          \* "idle", "await1" (first submission in flight),
                 \* "await2" (retry in flight), "done"
    op,          \* the operation in progress: [name, ...]
    args,        \* the arguments of the generate_completion call in progress
    params,      \* generate_completion's local `params`
    requests,    \* the requests submitted by the operation, in order
    responses,   \* what the service answered to each request, in order
    outcome,     \* how generate_completion ended: [kind, text | error]
    gcCalls,     \* generate_completion invocations made by the operation
    result,      \* how the operation ended: [kind, value | error]; for a
                 \* handler, how its generator call ended
    session,     \* st.session_state
    users,       \* table users: the usernames, row i having id i
    paths,       \* table learning_paths: the rows, row i having id i
    shown,       \* what the handler in progress has shown
    escaped,     \* the exception that left the handler in progress, if any
    progress,    \* table progress: the rows, row i having id i
    writes,      \* write transactions the latest action has run
    conn,        \* the open sqlite3 connection of the Database operation in
                 \* progress, if any
    apiKey,      \* OPENAI_API_KEY of the process environment, if set
    services,    \* init_services: "none" (not run), "ready", "halted"
    stack,       \* the calls of get_directory_structure in progress, the
                 \* outermost first: [node, path, depth, idx, structure]
    procs,       \* the update_progress call of each session that shares
                 \* the Database: [pc, call, existing, raised]
    chat,        \* table chat_history: the rows, row i having id i
    clock,       \* CURRENT_TIMESTAMP, in seconds
    tmpFiles     \* the temporary files that exist, by name

\* The state of the operations that use neither the completion service nor
\* the tables above.
ext == <<stack, procs, chat, clock, tmpFiles>>

\* The state of the completion calls and of the page.
page == <<engine, pc, op, args, params, requests, responses, outcome, gcCalls, result,
          session, shown, escaped, writes, conn, apiKey, services>>

vars == <<engine, pc, op, args, params, requests, responses, outcome, gcCalls, result,
          session, users, paths, shown, escaped, progress, writes, conn, apiKey,
          services, ext>>

\* ------------------------------------------------- AIEngine.__init__

DefaultModel == GPT5 \o <<"-", "m">>

DefaultTemperature == 7

DefaultMaxTokens == 4000

\* AIEngine() as app.py constructs it: no arguments, everything from the
\* environment.  envModel, envTemp, envMax are Optional (unset is None).
NewEngine(envModel, envTemp, envMax) ==
    [ model       |-> IF envModel # None THEN envModel[1] ELSE DefaultModel,
      temperature |-> IF envTemp # None THEN envTemp[1] ELSE DefaultTemperature,
      max_tokens  |-> IF envMax # None THEN envMax[1] ELSE DefaultMaxTokens ]

EnvModels == {None} \cup { Some(m) : m \in ModelNames }

EnvTemps == {None, Some(0)}

EnvMaxTokens == {None, Some(100)}

Engines ==
    { NewEngine(m, t, x) : m \in EnvModels, t \in EnvTemps, x \in EnvMaxTokens }

\* ------------------------------------------- AIEngine.generate_completion

\* DialectParams with the temperature set for every family.
DialectParamsWithTemperature(e, a) ==
    ("temperature" :> NumOr(a.temperature, e.temperature))
        @@ (IF StartsWith(e.model, GPT5)
            THEN ("max_completion_tokens" :> NumOr(a.max_tokens, e.max_tokens))
                     @@ ("verbosity" :> a.verbosity)
                     @@ ("reasoning_effort" :> a.reasoning_effort)
            ELSE IF StartsWith(e.model, O1)
            THEN ("max_completion_tokens" :> NumOr(a.max_tokens, e.max_tokens))
            ELSE ("max_tokens" :> NumOr(a.max_tokens, e.max_tokens)))

\* DialectParams that keeps the dialect of the model the engine was built
\* with.
DialectParamsCachedDialect(e, a) ==
    ("max_completion_tokens" :> NumOr(a.max_tokens, e.max_tokens))
        @@ ("verbosity" :> a.verbosity)
        @@ ("reasoning_effort" :> a.reasoning_effort)

\* The fields the model family adds (lines 39-50).
DialectParams(e, a) ==
    IF StartsWith(e.model, GPT5)
    THEN ("max_completion_tokens" :> NumOr(a.max_tokens, e.max_tokens))
             @@ ("verbosity" :> a.verbosity)
             @@ ("reasoning_effort" :> a.reasoning_effort)
    ELSE IF StartsWith(e.model, O1)
    THEN ("max_completion_tokens" :> NumOr(a.max_tokens, e.max_tokens))
    ELSE ("temperature" :> NumOr(a.temperature, e.temperature))
             @@ ("max_tokens" :> NumOr(a.max_tokens, e.max_tokens))

\* params as it stands when the first request is submitted (lines 33-53).
BuildParams(e, a) ==
    LET base == ("model" :> e.model) @@ ("messages" :> a.messages) @@ DialectParams(e, a)
    IN  IF DictTruthy(a.response_format)
        THEN base @@ ("response_format" :> a.response_format[1])
        ELSE base

\* RenameTokenField that copies the field instead of popping it.
RenameTokenFieldKeepingOld(p) ==
    p @@ ("max_completion_tokens" :> p["max_tokens"])

\* RenameTokenField that loses the temperature with the popped field.
RenameTokenFieldDroppingTemperature(p) ==
    [ k \in (DOMAIN p \ {"max_tokens", "temperature"}) \cup {"max_completion_tokens"} |->
        IF k = "max_completion_tokens" THEN p["max_tokens"] ELSE p[k] ]

\* params["max_completion_tokens"] = params.pop("max_tokens") (line 63).
RenameTokenField(p) ==
    [ k \in (DOMAIN p \ {"max_tokens"}) \cup {"max_completion_tokens"} |->
        IF k = "max_completion_tokens" THEN p["max_tokens"] ELSE p[k] ]

\* ShouldRetry satisfied by either field name alone.
ShouldRetryOnEitherName(p, msg) ==
    /\ Mentions(msg, "max_tokens") \/ Mentions(msg, "max_completion_tokens")
    /\ "max_tokens" \in DOMAIN p

\* ShouldRetry satisfied by any error of a request that has max_tokens.
ShouldRetryOnAnyError(p, msg) ==
    "max_tokens" \in DOMAIN p

\* The condition of the retry (lines 60 and 62).
ShouldRetry(p, msg) ==
    /\ Mentions(msg, "max_tokens")
    /\ Mentions(msg, "max_completion_tokens")
    /\ "max_tokens" \in DOMAIN p

Returned(text) == [kind |-> "return", text |-> text]

Raised(msg) == [kind |-> "raise", error |-> msg]

NoOutcome == [kind |-> "none"]

\* ------------------------------------- structured results (ai_engine.py)

\* An operation returned the Python value v.
Value(v) == [kind |-> "return", value |-> v]

\* The characters of a text: the str that the tokens spell.
RECURSIVE Flatten(_)
Flatten(text) ==
    IF text = <<>> THEN <<>> ELSE Head(text) \o Flatten(Tail(text))

\* {"error": "Failed to parse <kind>", "raw_response": response}
Sentinel(what, text) ==
    PyDict(<< <<"error", PyStr(<<what>>)>>, <<"raw_response", PyStr(Flatten(text))>> >>)

\* ParseStructured that wraps what it decoded.
ParseStructuredWrapping(o, what) ==
    IF o.kind = "raise" THEN o
    ELSE IF Loads(o.text).ok
    THEN Value(PyDict(<< <<"result", Loads(o.text).value>> >>))
    ELSE Value(Sentinel(what, o.text))

\* try: return json.loads(response)
\* except json.JSONDecodeError: return {"error": ..., "raw_response": response}
\* An error of generate_completion propagates.
ParseStructured(o, what) ==
    IF o.kind = "raise" THEN o
    ELSE IF Loads(o.text).ok THEN Value(Loads(o.text).value)
    ELSE Value(Sentinel(what, o.text))

\* The decimal literal of a small count.
IntLit == [ n \in 0..1 |-> IF n = 0 THEN <<"0">> ELSE <<"1">> ]

\* CurriculumGenerator.adapt_curriculum, lines 139-147
AdaptResult(o, curriculum, completed) ==
    IF o.kind = "raise" THEN o
    ELSE IF Loads(o.text).ok
    THEN Value(PyDict(<< <<"original_curriculum", curriculum>>,
                         <<"adaptations", Loads(o.text).value>>,
                         <<"based_on_progress", PyNum(IntLit[completed])>> >>))
    ELSE Value(PyDict(<< <<"error", PyStr(<<"Failed to generate adaptations">>)>> >>))

\* The arguments a call site gives generate_completion: temperature and
\* max_tokens are never passed.
CallArgs(messages, format, verbosity, effort) ==
    [ messages         |-> messages,
      temperature      |-> None,
      max_tokens       |-> None,
      response_format  |-> format,
      verbosity        |-> verbosity,
      reasoning_effort |-> effort ]

\* ------------------------------------------ generators (curriculum.py)

\* `"error" in value`: a key of a dict, a substring of a str, an element of
\* a list; a number is not iterable (TypeError).
InValue(word, v) ==
    IF v.t = "dict" THEN (IF word \in Keys(v) THEN "yes" ELSE "no")
    ELSE IF v.t = "str" THEN (IF Mentions(v.v, word) THEN "yes" ELSE "no")
    ELSE IF v.t = "list"
    THEN (IF \E i \in DOMAIN v.v : v.v[i] = PyStr(<<word>>) THEN "yes" ELSE "no")
    ELSE "TypeError"

RECURSIVE PutAll(_, _)
PutAll(d, items) ==
    IF items = <<>> THEN d
    ELSE PutAll(Put(d, items[1][1], items[1][2]), Tail(items))

\* generate_from_topic / _syllabus / _github after generate_curriculum
\* returned r: `if "error" not in curriculum: curriculum[...] = ...`.
WithMetadata(r, meta) ==
    IF r.kind = "raise" THEN r
    ELSE IF InValue("error", r.value) = "TypeError" THEN Raised(<<"TypeError">>)
    ELSE IF InValue("error", r.value) = "yes" THEN r
    ELSE IF r.value.t = "dict" THEN Value(PutAll(r.value, meta))
    ELSE Raised(<<"TypeError">>)

TopicMeta(level) ==
    << <<"generated_from", PyStr(<<"topic">>)>>,
       <<"input_topic", PyStr(<<"T">>)>>,
       <<"level", PyStr(<<level>>)>> >>

\* FileHandler.parse_syllabus_structure of a syllabus with no section lines
SyllabusStructure ==
    PyDict(<< <<"topics", PyList(<<>>)>>,
              <<"prerequisites", PyList(<<>>)>>,
              <<"learning_outcomes", PyList(<<>>)>>,
              <<"schedule", PyList(<<>>)>>,
              <<"raw_content", PyStr(<<"T">>)>> >>)

SyllabusMeta ==
    << <<"generated_from", PyStr(<<"syllabus">>)>>,
       <<"syllabus_structure", SyllabusStructure>> >>

GithubMeta ==
    << <<"generated_from", PyStr(<<"github">>)>>,
       <<"repository", PyDict(<< <<"name", PyStr(<<"T">>)>>,
                                 <<"url", PyStr(<<"T">>)>>,
                                 <<"language", PyStr(<<"T">>)>> >>)>> >>

\* ------------------------------------------------------------ operations

\* EndOperation that asks the service again when the text did not parse.
EndOperationAskingAgain(r) ==
    IF r.kind = "return" /\ r.value.t = "dict" /\ "error" \in Keys(r.value)
    THEN /\ result' = result
         /\ pc' = "await1"
         /\ gcCalls' = gcCalls + 1
    ELSE /\ result' = r
         /\ pc' = "done"
         /\ gcCalls' = gcCalls

\* The operation ends with result r; a structured-output operation does not
\* call generate_completion again.
EndOperation(r) ==
    /\ result' = r
    /\ pc' = "done"
    /\ gcCalls' = gcCalls

\* NewPath that stores the row under no user.
NewPathUnowned(userId, title, sourceType, curriculum) ==
    [ id              |-> Len(paths) + 1,
      user_id         |-> 0,
      title           |-> title,
      source_type     |-> sourceType,
      curriculum_json |-> Dumps(curriculum) ]

\* The members of a new learning_paths row (Database.create_learning_path).
NewPath(userId, title, sourceType, curriculum) ==
    [ id              |-> Len(paths) + 1,
      user_id         |-> userId,
      title           |-> title,
      source_type     |-> sourceType,
      curriculum_json |-> Dumps(curriculum) ]

\* The keys of TinyWinsTracker.ACHIEVEMENT_TYPES (tiny_wins.py lines 8-23).
AchievementTypes ==
    { "first_run", "debug_fix", "plot_made", "baseline", "overfit", "generalize",
      "refactor", "instrument", "reproduce", "ablation", "speedup", "readable",
      "artifact", "taught" }

\* TinyWinsTracker.add_win in session s (tiny_wins.py lines 35-62): how it
\* ends, and st.session_state.tiny_wins afterwards.  An unknown type
\* returns None; a known one appends the record to
\* st.session_state.tiny_wins, which has append only when it is a list.
AddWin(s, achievementType) ==
    IF achievementType \notin AchievementTypes
    THEN [ outcome |-> Value(None), tiny_wins |-> s.tiny_wins ]
    ELSE IF s.tiny_wins.t = "list"
    THEN [ outcome   |-> Value(Some([type |-> achievementType])),
           tiny_wins |-> PyList(Append(s.tiny_wins.v, [type |-> achievementType])) ]
    ELSE [ outcome |-> Raised(<<"AttributeError">>), tiny_wins |-> s.tiny_wins ]

\* TinyWinsTracker.get_recent_wins in session s (tiny_wins.py lines 64-66):
\* st.session_state.tiny_wins[-limit:], a slice only a sequence has.
GetRecentWins(s, limit) ==
    IF s.tiny_wins.t = "list"
    THEN Value(SubSeq(s.tiny_wins.v,
                      IF Len(s.tiny_wins.v) > limit THEN Len(s.tiny_wins.v) - limit + 1 ELSE 1,
                      Len(s.tiny_wins.v)))
    ELSE Raised(<<"TypeError">>)

\* add_win of a handler raises: app.py line 75 has bound
\* st.session_state.tiny_wins to the tracker itself (AttributeError).
AddWinRaises(s) == AddWin(s, "artifact").outcome.kind = "raise"

\* PathAccepted that lets every returned curriculum in.
PathAcceptedAlways(gen) ==
    gen.kind = "return"

\* The handler's `if "error" not in curriculum:` is entered.
PathAccepted(gen) ==
    gen.kind = "return" /\ InValue("error", gen.value) = "no"

\* The rest of a path-creation handler once the generator ended with gen
\* (app.py lines 283-296, 353-364, 393-404, 434-448, 482-493).
PathHandlerEnd(gen) ==
    /\ result' = gen
    /\ pc' = "done"
    /\ gcCalls' = gcCalls
    /\ UNCHANGED <<users, progress>>
    /\ IF PathAccepted(gen)
       THEN /\ writes' = writes + 1
            /\ paths' = Append(paths,
                   NewPath(session.user_id[1], op.title, op.source_type, gen.value))
            /\ session' = [session EXCEPT !.current_path_id = Some(Len(paths) + 1),
                                          !.current_curriculum = Some(gen.value)]
            /\ IF op.win /\ AddWinRaises(session)
               THEN /\ escaped' = Some(<<"AttributeError">>)
                    /\ shown' = shown
               ELSE /\ escaped' = None
                    /\ shown' = Append(shown, "success")
       ELSE /\ UNCHANGED <<paths, session, writes>>
            /\ IF gen.kind = "raise"
               THEN IF op.catches
                    THEN /\ shown' = Append(shown, "error")
                         /\ escaped' = None
                    ELSE /\ shown' = shown
                         /\ escaped' = Some(gen.error)
               ELSE UNCHANGED <<shown, escaped>>

\* The rest of the Generate Scaffold handler once generate_project ended
\* with project (app.py lines 631-633): the project is stored, then
\* project.get('starter_code', ...) is shown.
ScaffoldHandlerEnd(project) ==
    /\ result' = project
    /\ pc' = "done"
    /\ gcCalls' = gcCalls
    /\ UNCHANGED <<users, paths, progress, writes>>
    /\ IF project.kind = "raise"
       THEN /\ escaped' = Some(project.error)
            /\ UNCHANGED <<session, shown>>
       ELSE /\ session' = [session EXCEPT !.current_project = Some(project.value)]
            /\ IF project.value.t = "dict"
               THEN /\ shown' = Append(shown, "starter_code")
                    /\ escaped' = None
               ELSE /\ shown' = shown
                    /\ escaped' = Some(<<"AttributeError">>)

PathHandlers ==
    { "quick_build", "scratch_build", "syllabus_build", "github_build", "llm101n_path" }

\* What the operation in progress does with generate_completion's outcome.
Continue(o) ==
    IF op.name \in PathHandlers
    THEN PathHandlerEnd(WithMetadata(ParseStructured(o, "Failed to parse curriculum"), op.meta))
    ELSE IF op.name = "generate_scaffold"
    THEN ScaffoldHandlerEnd(ParseStructured(o, "Failed to parse project scaffold"))
    ELSE /\ UNCHANGED <<session, users, paths, progress, writes, shown, escaped>>
         /\ IF op.name = "generate_curriculum"
            THEN EndOperation(ParseStructured(o, "Failed to parse curriculum"))
            ELSE IF op.name = "generate_project_scaffold"
            THEN EndOperation(ParseStructured(o, "Failed to parse project scaffold"))
            ELSE IF op.name = "analyze_code_submission"
            THEN EndOperation(ParseStructured(o, "Failed to parse analysis"))
            ELSE IF op.name = "adapt_curriculum"
            THEN EndOperation(AdaptResult(o, op.curriculum, op.completed))
            ELSE EndOperation(o)

\* generate_completion is entered for operation o with arguments a (lines
\* 23-55): params is built and the first request submitted.
StartCall(o, a) ==
    /\ pc = "idle"
    /\ services = "ready"
    /\ op' = o
    /\ args' = a
    /\ writes' = 0
    /\ params' = BuildParams(engine, a)
    /\ requests' = <<BuildParams(engine, a)>>
    /\ gcCalls' = 1
    /\ pc' = "await1"
    /\ UNCHANGED <<engine, apiKey, ext, services, conn, responses, outcome, result, session,
                   users, paths, progress, shown, escaped>>

\* A direct call of generate_completion.
GenerateCompletion(a) ==
    StartCall([name |-> "generate_completion"], a)

\* What generate_curriculum passes: JSON asked for, verbosity and reasoning
\* effort high (lines 140-145).
CurriculumArgs ==
    CallArgs(<<SystemMsg, UserMsg>>, Some(JsonObjectFormat), "high", "high")

\* What generate_project_scaffold passes (lines 204-208).
ScaffoldArgs ==
    CallArgs(<<SystemMsg, UserMsg>>, Some(JsonObjectFormat), "high", "medium")

\* What analyze_code_submission and adapt_curriculum pass (lines 283-286,
\* curriculum.py lines 134-137).
AnalysisArgs ==
    CallArgs(<<SystemMsg, UserMsg>>, Some(JsonObjectFormat), "medium", "medium")

\* AIEngine.generate_curriculum (lines 135-145)
GenerateCurriculum ==
    StartCall([name |-> "generate_curriculum"], CurriculumArgs)

\* AIEngine.generate_project_scaffold (lines 199-208)
GenerateProjectScaffold ==
    StartCall([name |-> "generate_project_scaffold"], ScaffoldArgs)

\* AIEngine.analyze_code_submission (lines 278-286)
AnalyzeCodeSubmission ==
    StartCall([name |-> "analyze_code_submission"], AnalysisArgs)

\* CurriculumGenerator.adapt_curriculum (lines 103-137): curriculum['title']
\* is read before anything is submitted (KeyError when it is missing).
AdaptCurriculum(curriculum, completed) ==
    IF "title" \in Keys(curriculum)
    THEN StartCall([name |-> "adapt_curriculum", curriculum |-> curriculum,
                    completed |-> completed], AnalysisArgs)
    ELSE /\ pc = "idle"
         /\ services = "ready"
         /\ writes' = 0
         /\ op' = [name |-> "adapt_curriculum", curriculum |-> curriculum,
                   completed |-> completed]
         /\ result' = Raised(<<"KeyError">>)
         /\ pc' = "done"
         /\ UNCHANGED <<engine, apiKey, ext, services, conn, args, params, requests, responses, outcome, gcCalls,
                        session, users, paths, progress, shown, escaped>>

\* The service answers a submission with text (lines 56 and 66).
ServiceReturns(text) ==
    /\ pc \in {"await1", "await2"}
    /\ responses' = Append(responses, Returned(text))
    /\ outcome' = Returned(text)
    /\ Continue(Returned(text))
    /\ UNCHANGED <<engine, apiKey, ext, services, conn, op, args, params, requests>>

\* The first submission raises (lines 58-72): one retry with the field
\* renamed, or the error re-raised.
FirstSubmissionRaises(msg) ==
    /\ pc = "await1"
    /\ responses' = Append(responses, Raised(msg))
    /\ IF ShouldRetry(params, msg)
       THEN /\ params' = RenameTokenField(params)
            /\ requests' = Append(requests, RenameTokenField(params))
            /\ pc' = "await2"
            /\ UNCHANGED <<outcome, result, gcCalls, session, users, paths, progress,
                           writes, shown, escaped>>
       ELSE /\ outcome' = Raised(msg)
            /\ Continue(Raised(msg))
            /\ UNCHANGED <<params, requests>>
    /\ UNCHANGED <<engine, apiKey, ext, services, conn, op, args>>

\* RetryRaises that raises the first error instead of the retry's.
RetryRaisesFirstError(msg) ==
    /\ pc = "await2"
    /\ responses' = Append(responses, Raised(msg))
    /\ outcome' = responses[1]
    /\ Continue(responses[1])
    /\ UNCHANGED <<engine, apiKey, ext, services, conn, op, args, params, requests>>

\* The retry raises (lines 67-69): retry_error is raised.
RetryRaises(msg) ==
    /\ pc = "await2"
    /\ responses' = Append(responses, Raised(msg))
    /\ outcome' = Raised(msg)
    /\ Continue(Raised(msg))
    /\ UNCHANGED <<engine, apiKey, ext, services, conn, op, args, params, requests>>

\* ------------------------------------ AIEngine.get_learning_guidance

\* How many messages of the chat history are passed on (line 230).
HistoryWindow == 5

\* LastMessages that takes the oldest messages, chat_history[:5].
LastMessagesFromStart(history) ==
    SubSeq(history, 1, IF Len(history) < HistoryWindow THEN Len(history) ELSE HistoryWindow)

\* chat_history[-5:] (line 230).
LastMessages(history) ==
    SubSeq(history,
           IF Len(history) > HistoryWindow THEN Len(history) - HistoryWindow + 1 ELSE 1,
           Len(history))

\* user_message (lines 233-236): the context, the current module when one
\* is given, the question.
GuidanceContent(question, currentModule) ==
    IF currentModule # None /\ currentModule[1] # ""
    THEN IF question = "q1"
         THEN "Context: c\nCurrent Module: m1\n\nQuestion: q1"
         ELSE "Context: c\nCurrent Module: m1\n\nQuestion: q2"
    ELSE IF question = "q1"
         THEN "Context: c\n\nQuestion: q1"
         ELSE "Context: c\n\nQuestion: q2"

\* messages of get_learning_guidance (lines 227-238): the system prompt,
\* the role and content of each of the last history messages when
\* chat_history is truthy, the user message.
GuidanceMessages(question, currentModule, chatHistory) ==
    <<SystemMsg>>
        \o (IF chatHistory # None /\ chatHistory[1] # <<>>
            THEN [ i \in DOMAIN LastMessages(chatHistory[1]) |->
                     [ role    |-> LastMessages(chatHistory[1])[i].role,
                       content |-> LastMessages(chatHistory[1])[i].content ] ]
            ELSE <<>>)
        \o << [role |-> "user", content |-> GuidanceContent(question, currentModule)] >>

\* get_learning_guidance (lines 215-244): the completion is returned as it
\* is.
GetLearningGuidance(question, currentModule, chatHistory) ==
    StartCall([name |-> "get_learning_guidance", question |-> question,
               current_module |-> currentModule, chat_history |-> chatHistory],
              CallArgs(GuidanceMessages(question, currentModule, chatHistory),
                       None, "medium", "medium"))

\* ------------------------------ GitHubFetcher.get_directory_structure

(***************************************************************************)
(* A repository is the tree of its contents.  A node is a file or a        *)
(* directory: [type, name, children, fails], children being what           *)
(* repo.get_contents lists for the directory and fails telling that the    *)
(* listing raises.  A path is the sequence of the names down to a node.    *)
(***************************************************************************)

PyTrue == [t |-> "bool", v |-> <<"True">>]

\* The default of max_depth (line 57).
DefaultMaxDepth == 3

\* The max_depth analyze_repository passes (line 106).
AnalyzeDepth == 2

\* {"truncated": True} (line 61)
Truncated == PyDict(<< <<"truncated", PyTrue>> >>)

\* DepthReached that lets the directories of depth max_depth be listed.
DepthReachedAfter(currentDepth, maxDepth) == currentDepth > maxDepth

\* current_depth >= max_depth (line 60)
DepthReached(currentDepth, maxDepth) == currentDepth >= maxDepth

\* The entry of a file (lines 77-81); every file of the model has size 1.
FileEntry(path) ==
    PyDict(<< <<"type", PyStr(<<"file">>)>>,
              <<"size", PyNum(<<"1">>)>>,
              <<"path", PyStr(path)>> >>)

\* A call of get_directory_structure that has passed line 60.
Frame(node, path, depth) ==
    [ node |-> node, path |-> path, depth |-> depth, idx |-> 1,
      structure |-> PyDict(<<>>) ]

\* get_directory_structure is called on the root of repo (lines 53-63);
\* caller tells whether analyze_repository made the call.
GetDirectoryStructure(repo, maxDepth, caller) ==
    /\ pc = "idle"
    /\ op' = [name |-> "get_directory_structure", repo |-> repo,
              max_depth |-> maxDepth, caller |-> caller]
    /\ IF DepthReached(0, maxDepth)
       THEN /\ result' = Value(Truncated)
            /\ stack' = <<>>
            /\ pc' = "done"
       ELSE /\ result' = result
            /\ stack' = <<Frame(repo, <<>>, 0)>>
            /\ pc' = "walk"
    /\ UNCHANGED <<engine, apiKey, services, conn, args, params, requests, responses,
                   outcome, gcCalls, session, users, paths, progress, writes, shown,
                   escaped, procs, chat, clock, tmpFiles>>

\* analysis["structure"] = self.get_directory_structure(repo, max_depth=2)
AnalyzeRepository(repo) ==
    GetDirectoryStructure(repo, AnalyzeDepth, "analyze_repository")

\* The innermost call returns structure s (line 86): the caller stores it
\* under the directory's name (line 70) and goes on with the next entry.
WalkReturn(s) ==
    LET n == Len(stack) IN
    IF n = 1
    THEN /\ result' = Value(s)
         /\ stack' = <<>>
         /\ pc' = "done"
    ELSE /\ result' = result
         /\ pc' = pc
         /\ stack' = [ SubSeq(stack, 1, n - 1) EXCEPT ![n - 1] =
                         [ @ EXCEPT !.structure = Put(@, stack[n].node.name, s),
                                    !.idx = @ + 1 ] ]

\* One step of the innermost call (lines 63-86): the listing raises and
\* the error is stored, or the next entry is handled, a directory by a
\* nested call, or the loop is over.
WalkStep ==
    /\ pc = "walk"
    /\ LET n   == Len(stack)
           top == stack[n]
       IN  IF top.node.fails
           THEN WalkReturn(PyDict(<< <<"error", PyStr(<<"e">>)>> >>))
           ELSE IF top.idx > Len(top.node.children)
           THEN WalkReturn(top.structure)
           ELSE LET content == top.node.children[top.idx]
                    path    == Append(top.path, content.name)
                IN  /\ result' = result
                    /\ pc' = pc
                    /\ IF content.type = "dir"
                       THEN IF DepthReached(top.depth + 1, op.max_depth)
                            THEN stack' = [ stack EXCEPT ![n] =
                                     [ @ EXCEPT !.structure = Put(@, content.name, Truncated),
                                                !.idx = @ + 1 ] ]
                            ELSE stack' = Append(stack, Frame(content, path, top.depth + 1))
                       ELSE stack' = [ stack EXCEPT ![n] =
                                [ @ EXCEPT !.structure = Put(@, content.name, FileEntry(path)),
                                           !.idx = @ + 1 ] ]
    /\ UNCHANGED <<engine, apiKey, services, conn, op, args, params, requests, responses,
                   outcome, gcCalls, session, users, paths, progress, writes, shown,
                   escaped, procs, chat, clock, tmpFiles>>

\* Between two calls the owner of the engine assigns another model to it:
\* model is a plain attribute (line 19), read again by every call (lines 34
\* and 39-47).
Reconfigure(m) ==
    /\ pc = "idle"
    /\ services = "ready"
    /\ engine' = [engine EXCEPT !.model = m]
    /\ UNCHANGED <<pc, op, args, params, requests, responses, outcome, gcCalls,
                   result, session, users, paths, shown, escaped, progress,
                   writes, conn, apiKey, ext, services>>

\* The caller has the outcome; the next operation may start.
Finish ==
    /\ pc = "done"
    /\ pc' = "idle"
    /\ op' = [name |-> "none"]
    /\ args' = None
    /\ params' = <<>>
    /\ requests' = <<>>
    /\ responses' = <<>>
    /\ outcome' = NoOutcome
    /\ gcCalls' = 0
    /\ result' = NoOutcome
    /\ shown' = <<>>
    /\ escaped' = None
    /\ writes' = 0
    /\ UNCHANGED <<engine, apiKey, ext, services, conn, session, users, paths, progress>>

\* ------------------------------------------------ Database (database.py)

(***************************************************************************)
(* A Database operation runs in steps: it opens a connection, runs its     *)
(* statements on it, commits if it wrote, and leaves the with block, which *)
(* closes the connection.  The connection sees its own uncommitted writes; *)
(* the tables hold what was committed.                                     *)
(***************************************************************************)

\* A row of progress.
ProgressRow(id, userId, pathId, moduleId, status, projectsJson, notes) ==
    [ id                 |-> id,
      user_id            |-> userId,
      path_id            |-> pathId,
      module_id          |-> moduleId,
      status             |-> status,
      projects_completed |-> projectsJson,
      notes              |-> notes ]

\* SELECT id FROM progress WHERE user_id = ? AND path_id = ? AND module_id = ?
ExistingProgress(rows, userId, pathId, moduleId) ==
    { i \in DOMAIN rows : /\ rows[i].user_id = userId
                          /\ rows[i].path_id = pathId
                          /\ rows[i].module_id = moduleId }

\* json.dumps(projects_completed) if projects_completed else None, for a
\* list of project names given as a count
ProjectsJson(projects) ==
    IF projects = None \/ projects[1] = 0 THEN None ELSE Some(projects[1])

\* UpdateProgressRows that inserts without looking for a row.
UpdateProgressRowsInserting(rows, userId, pathId, moduleId, status, projects, notes) ==
    Append(rows, ProgressRow(Len(rows) + 1, userId, pathId, moduleId, status,
                             ProjectsJson(projects), notes))

\* UpdateProgressRows that keeps the stored notes and projects when the call
\* gives none.
UpdateProgressRowsMerging(rows, userId, pathId, moduleId, status, projects, notes) ==
    LET existing == ExistingProgress(rows, userId, pathId, moduleId) IN
    IF existing # {}
    THEN LET id == CHOOSE i \in existing : \A j \in existing : i <= j
         IN  [rows EXCEPT ![id] = ProgressRow(id, userId, pathId, moduleId, status,
                 IF ProjectsJson(projects) = None THEN rows[id].projects_completed
                 ELSE ProjectsJson(projects),
                 IF notes = None THEN rows[id].notes ELSE notes)]
    ELSE Append(rows, ProgressRow(Len(rows) + 1, userId, pathId, moduleId, status,
                                  ProjectsJson(projects), notes))

\* The statements of update_progress (lines 150-174): the row found for the
\* tuple gets the new status, projects and notes; without one, a row is
\* inserted.
UpdateProgressRows(rows, userId, pathId, moduleId, status, projects, notes) ==
    LET existing == ExistingProgress(rows, userId, pathId, moduleId) IN
    IF existing # {}
    THEN LET id == CHOOSE i \in existing : \A j \in existing : i <= j
         IN  [rows EXCEPT ![id] = ProgressRow(id, userId, pathId, moduleId, status,
                                              ProjectsJson(projects), notes)]
    ELSE Append(rows, ProgressRow(Len(rows) + 1, userId, pathId, moduleId, status,
                                  ProjectsJson(projects), notes))

\* SELECT * FROM progress WHERE user_id = ? AND path_id = ?
ProgressOf(rows, userId, pathId) ==
    { rows[i] : i \in { j \in DOMAIN rows : /\ rows[j].user_id = userId
                                            /\ rows[j].path_id = pathId } }

\* sqlite3.connect: a connection on the committed tables, no transaction
\* pending.
Connection ==
    [ users |-> users, paths |-> paths, progress |-> progress, pending |-> FALSE ]

\* A Database operation is entered: get_connection opens its connection
\* (lines 13-16).
DbOpen(o) ==
    /\ pc = "idle"
    /\ conn = None
    /\ o.name = "create_learning_path" => Len(paths) < MaxPaths
    /\ op' = o
    /\ conn' = Some(Connection)
    /\ pc' = "db"
    /\ result' = NoOutcome
    /\ writes' = 0
    /\ UNCHANGED <<engine, apiKey, ext, services, args, params, requests, responses, outcome,
                   gcCalls, session, users, paths, progress, shown, escaped>>

\* CreateUserExecute that inserts whatever the table holds.
CreateUserExecuteAlwaysInserting(c) ==
    [ conn   |-> [c EXCEPT !.users = Append(c.users, op.username), !.pending = TRUE],
      pc     |-> "db_commit",
      result |-> NoOutcome ]

\* create_user up to its commit (lines 78-92): the INSERT, or on
\* IntegrityError (the name is taken) the SELECT of the row's id.
CreateUserExecute(c) ==
    IF \E i \in DOMAIN c.users : c.users[i] = op.username
    THEN [ conn   |-> c,
           pc     |-> "db_close",
           result |-> Value(CHOOSE i \in DOMAIN c.users : c.users[i] = op.username) ]
    ELSE [ conn   |-> [c EXCEPT !.users = Append(c.users, op.username),
                                !.pending = TRUE],
           pc     |-> "db_commit",
           result |-> NoOutcome ]

\* create_learning_path up to its commit (lines 102-109)
CreateLearningPathExecute(c) ==
    [ conn   |-> [c EXCEPT !.paths = Append(c.paths,
                      [ id              |-> Len(c.paths) + 1,
                        user_id         |-> op.user_id,
                        title           |-> op.title,
                        source_type     |-> op.source_type,
                        curriculum_json |-> Dumps(op.curriculum) ]),
                           !.pending = TRUE],
      pc     |-> "db_commit",
      result |-> NoOutcome ]

\* update_progress up to its commit (lines 148-174)
UpdateProgressExecute(c) ==
    [ conn   |-> [c EXCEPT !.progress = UpdateProgressRows(c.progress, op.user_id,
                               op.path_id, op.module_id, op.status,
                               op.projects_completed, op.notes),
                           !.pending = TRUE],
      pc     |-> "db_commit",
      result |-> NoOutcome ]

\* get_progress (lines 179-194)
GetProgressExecute(c) ==
    [ conn   |-> c,
      pc     |-> "db_close",
      result |-> Value(ProgressOf(c.progress, op.user_id, op.path_id)) ]

\* The statements of the operation run on its connection.
DbExecute ==
    /\ pc = "db"
    /\ LET next == IF op.name = "create_user" THEN CreateUserExecute(conn[1])
                   ELSE IF op.name = "create_learning_path"
                   THEN CreateLearningPathExecute(conn[1])
                   ELSE IF op.name = "update_progress" THEN UpdateProgressExecute(conn[1])
                   ELSE GetProgressExecute(conn[1])
       IN  /\ conn' = Some(next.conn)
           /\ pc' = next.pc
           /\ result' = next.result
    /\ UNCHANGED <<engine, apiKey, ext, services, op, args, params, requests, responses,
                   outcome, gcCalls, session, users, paths, progress, writes, shown,
                   escaped>>

\* What the operation returns after its commit: cursor.lastrowid, or nothing.
ReturnAfterCommit(c) ==
    IF op.name = "create_user" THEN Value(Len(c.users))
    ELSE IF op.name = "create_learning_path" THEN Value(Len(c.paths))
    ELSE Value(None)

\* conn.commit(): the connection's writes become the tables.
DbCommit ==
    /\ pc = "db_commit"
    /\ users' = conn[1].users
    /\ paths' = conn[1].paths
    /\ progress' = conn[1].progress
    /\ conn' = Some([conn[1] EXCEPT !.pending = FALSE])
    /\ result' = ReturnAfterCommit(conn[1])
    /\ writes' = writes + 1
    /\ pc' = "db_close"
    /\ UNCHANGED <<engine, apiKey, ext, services, op, args, params, requests, responses,
                   outcome, gcCalls, session, shown, escaped>>

\* conn.commit() raises (the file is locked, the disk is full).
DbCommitRaises ==
    /\ pc = "db_commit"
    /\ result' = Raised(<<"OperationalError">>)
    /\ pc' = "db_close"
    /\ UNCHANGED <<engine, apiKey, ext, services, conn, op, args, params, requests, responses,
                   outcome, gcCalls, session, users, paths, progress, writes, shown,
                   escaped>>

\* DbClose that leaves the connection open when the operation raises.
DbCloseUnlessRaised ==
    /\ pc = "db_close"
    /\ conn' = IF result.kind = "raise" THEN conn ELSE None
    /\ pc' = "done"
    /\ UNCHANGED <<engine, apiKey, ext, services, op, args, params, requests, responses,
                   outcome, gcCalls, result, session, users, paths, progress, writes,
                   shown, escaped>>

\* The with block is left, by return or by exception (lines 19-20):
\* conn.close(), which drops what was not committed.
DbClose ==
    /\ pc = "db_close"
    /\ conn' = None
    /\ pc' = "done"
    /\ UNCHANGED <<engine, apiKey, ext, services, op, args, params, requests, responses,
                   outcome, gcCalls, result, session, users, paths, progress, writes,
                   shown, escaped>>

\* -------------------------------- update_progress, sessions in parallel

(***************************************************************************)
(* Every browser session runs its script in a thread of its own and all    *)
(* share the Database object of init_services; each call opens its own     *)
(* connection.  A call is at "select" once connected, at "write" after     *)
(* its SELECT, at "commit" after its INSERT or UPDATE, which takes the     *)
(* write lock of the file until the commit, and "closed" afterwards.       *)
(***************************************************************************)

Sessions == {1, 2}

NoCall == [pc |-> "out", call |-> [name |-> "none"], existing |-> None, raised |-> FALSE]

\* A session enters update_progress (lines 139-149).
ProcEnter(p, call) ==
    /\ procs[p].pc \in {"out", "closed"}
    /\ Len(progress) < MaxProgressRows
    /\ procs' = [procs EXCEPT ![p] = [NoCall EXCEPT !.pc = "select", !.call = call]]
    /\ UNCHANGED <<page, users, paths, progress, stack, chat, clock, tmpFiles>>

\* existing = cursor.fetchone() of the SELECT (lines 151-156), which reads
\* what is committed.
ProcSelect(p) ==
    /\ procs[p].pc = "select"
    /\ LET c        == procs[p].call
           existing == ExistingProgress(progress, c.user_id, c.path_id, c.module_id)
       IN  procs' = [procs EXCEPT ![p].pc = "write",
                                  ![p].existing =
                                      IF existing = {} THEN None
                                      ELSE Some(CHOOSE i \in existing :
                                                  \A j \in existing : i <= j)]
    /\ UNCHANGED <<page, users, paths, progress, stack, chat, clock, tmpFiles>>

\* The UPDATE or INSERT (lines 160-174) begins a transaction and takes the
\* write lock, which no other connection may hold.
ProcWrite(p) ==
    /\ procs[p].pc = "write"
    /\ \A q \in Sessions \ {p} : procs[q].pc # "commit"
    /\ procs' = [procs EXCEPT ![p].pc = "commit"]
    /\ UNCHANGED <<page, users, paths, progress, stack, chat, clock, tmpFiles>>

\* The write lock stays taken for the time sqlite3 waits: the statement
\* raises OperationalError and the connection is closed.
ProcBusy(p) ==
    /\ procs[p].pc = "write"
    /\ \E q \in Sessions \ {p} : procs[q].pc = "commit"
    /\ procs' = [procs EXCEPT ![p].pc = "closed", ![p].raised = TRUE]
    /\ UNCHANGED <<page, users, paths, progress, stack, chat, clock, tmpFiles>>

\* conn.commit() (line 176): the row the SELECT found is updated by its id,
\* or a row is inserted; then the connection is closed.
ProcCommit(p) ==
    /\ procs[p].pc = "commit"
    /\ LET c   == procs[p].call
           row == ProgressRow(IF procs[p].existing # None THEN procs[p].existing[1]
                              ELSE Len(progress) + 1,
                              c.user_id, c.path_id, c.module_id, c.status,
                              ProjectsJson(c.projects_completed), c.notes)
       IN  progress' = IF procs[p].existing # None
                       THEN [progress EXCEPT ![row.id] = row]
                       ELSE Append(progress, row)
    /\ procs' = [procs EXCEPT ![p].pc = "closed"]
    /\ UNCHANGED <<page, users, paths, stack, chat, clock, tmpFiles>>

\* --------------------------------------------------- handlers (app.py)

(***************************************************************************)
(* A handler is the code under one button.  It is enabled when main()      *)
(* routes to the view that shows the button: the welcome screen without a  *)
(* user, path creation with a user and no current path, the learning       *)
(* interface with both.  The statistics panel of the sidebar (lines        *)
(* 162-176) is not modelled: a handler is taken as reached whenever its    *)
(* view is the one routed to.                                              *)
(***************************************************************************)

\* Session state as lines 65-78 initialise it.
NewSession ==
    [ user_id            |-> None,
      username           |-> None,
      current_path_id    |-> None,
      current_curriculum |-> None,
      current_module     |-> None,
      current_project    |-> None,
      experiments        |-> <<>>,
      current_experiment |-> None,
      tiny_wins          |-> [t |-> "TinyWinsTracker"] ]

\* Database.create_user: the id of the new row, or of the row that holds
\* the name already.
UserId(name) ==
    IF \E i \in DOMAIN users : users[i] = name
    THEN CHOOSE i \in DOMAIN users : users[i] = name
    ELSE Len(users) + 1

\* The configurations of the structured-output and page specifications:
\* the default model and a legacy one.
SomeEngines ==
    { NewEngine(None, None, None),
      NewEngine(Some(<<"g", "p", "t", "-", "4">>), None, None) }

\* The values OPENAI_API_KEY may have: unset, empty, the placeholder of the
\* sample .env, a key.
ApiKeys ==
    { None, Some(""), Some("your-openai-api-key-here"), Some("sk-key") }

\* ApiKeyRejected that lets the placeholder through.
ApiKeyRejectedWhenAbsent(key) ==
    key = None \/ key[1] = ""

\* AIEngine.__init__ line 12: the key is missing, empty or the placeholder
\* (ValueError).
ApiKeyRejected(key) ==
    key = None \/ key[1] = "" \/ key[1] = "your-openai-api-key-here"

\* No AIEngine has been constructed.
NoEngine == None

\* init_services (lines 46-62), run by every script run until it has
\* returned once (st.cache_resource keeps what it returned): the services
\* are constructed from the environment, or the ValueError of AIEngine is
\* shown and the script stopped.
InitServices ==
    /\ pc = "idle"
    /\ services # "ready"
    /\ IF ApiKeyRejected(apiKey)
       THEN /\ services' = "halted"
            /\ shown' = <<"Configuration Error">>
            /\ engine' = engine
       ELSE /\ services' = "ready"
            /\ shown' = shown
            /\ \E e \in SomeEngines : engine' = e
    /\ UNCHANGED <<apiKey, ext, conn, pc, op, args, params, requests, responses, outcome,
                   gcCalls, result, session, users, paths, progress, writes, escaped>>

\* "Begin Building" (display_sidebar, lines 155-160)
BeginBuilding(name) ==
    /\ pc = "idle"
    /\ services = "ready"
    /\ session.user_id = None
    /\ name # <<>>
    /\ writes' = IF \E i \in DOMAIN users : users[i] = name THEN 0 ELSE 1
    /\ users' = IF \E i \in DOMAIN users : users[i] = name
                THEN users ELSE Append(users, name)
    /\ session' = [session EXCEPT !.user_id = Some(UserId(name)),
                                  !.username = Some(name)]
    /\ UNCHANGED <<engine, apiKey, ext, services, conn, pc, op, args, params, requests, responses, outcome,
                   gcCalls, result, paths, progress, shown, escaped>>

\* "New Learning Path" (display_sidebar, lines 181-185)
NewLearningPath ==
    /\ pc = "idle"
    /\ services = "ready"
    /\ session.user_id # None
    /\ writes' = 0
    /\ session' = [session EXCEPT !.current_path_id = None,
                                  !.current_curriculum = None,
                                  !.current_module = None]
    /\ UNCHANGED <<engine, apiKey, ext, services, conn, pc, op, args, params, requests, responses, outcome,
                   gcCalls, result, users, paths, progress, shown, escaped>>

\* A button of "Your Builds" (display_sidebar, lines 199-210)
SelectPath(i) ==
    /\ pc = "idle"
    /\ services = "ready"
    /\ session.user_id # None
    /\ writes' = 0
    /\ i \in DOMAIN paths
    /\ paths[i].user_id = session.user_id[1]
    /\ session' = [session EXCEPT
           !.current_path_id = Some(paths[i].id),
           !.current_curriculum = Some(Loads(paths[i].curriculum_json).value)]
    /\ UNCHANGED <<engine, apiKey, ext, services, conn, pc, op, args, params, requests, responses, outcome,
                   gcCalls, result, users, paths, progress, shown, escaped>>

\* main() shows display_path_creation.
PathCreationShown ==
    /\ session.user_id # None
    /\ session.current_path_id = None
    /\ Len(paths) < MaxPaths

\* main() shows display_learning_interface.
LearningInterfaceShown ==
    /\ session.user_id # None
    /\ session.current_path_id # None

\* What the handler of QuickBuild passes on: the row's title and source type,
\* the generator's metadata, whether exceptions are caught, whether a
\* win is logged.
QuickBuildOp ==
    [name |-> "quick_build", title |-> "Tiny GPT",
      source_type |-> "quick_build", meta |-> TopicMeta("beginner"),
      catches |-> FALSE, win |-> TRUE]

\* A quick build button (display_path_creation, lines 280-296)
QuickBuild ==
    /\ PathCreationShown
    /\ StartCall(QuickBuildOp, CurriculumArgs)

\* What the handler of ScratchBuild passes on: the row's title and source type,
\* the generator's metadata, whether exceptions are caught, whether a
\* win is logged.
ScratchBuildOp ==
    [name |-> "scratch_build", title |-> "Build: T",
      source_type |-> "scratch", meta |-> TopicMeta("beginner"),
      catches |-> FALSE, win |-> FALSE]

\* "Generate Build Plan" with a topic typed (display_scratch_build, 346-364)
ScratchBuild ==
    /\ PathCreationShown
    /\ StartCall(ScratchBuildOp, CurriculumArgs)

\* What the handler of SyllabusBuild passes on: the row's title and source type,
\* the generator's metadata, whether exceptions are caught, whether a
\* win is logged.
SyllabusBuildOp ==
    [name |-> "syllabus_build", title |-> "Syllabus: T",
      source_type |-> "syllabus", meta |-> SyllabusMeta,
      catches |-> FALSE, win |-> FALSE]

\* "Convert to Build Projects" with a file processed (display_syllabus_build,
\* lines 385-404)
SyllabusBuild ==
    /\ PathCreationShown
    /\ StartCall(SyllabusBuildOp, CurriculumArgs)

\* What the handler of GithubBuild passes on: the row's title and source type,
\* the generator's metadata, whether exceptions are caught, whether a
\* win is logged.
GithubBuildOp ==
    [name |-> "github_build", title |-> "Rebuild: T",
      source_type |-> "github", meta |-> GithubMeta,
      catches |-> TRUE, win |-> FALSE]

\* "Analyze & Create Build Plan" with the repository fetched
\* (display_github_build, lines 416-448): inside try/except Exception
GithubBuild ==
    /\ PathCreationShown
    /\ StartCall(GithubBuildOp, CurriculumArgs)

\* What the handler of Llm101nPath passes on: the row's title and source type,
\* the generator's metadata, whether exceptions are caught, whether a
\* win is logged.
Llm101nPathOp ==
    [name |-> "llm101n_path", title |-> "LLM101n: Build a Storyteller",
      source_type |-> "llm101n", meta |-> TopicMeta("intermediate"),
      catches |-> FALSE, win |-> FALSE]

\* "Start LLM101n Journey" (display_llm101n_path, lines 468-493)
Llm101nPath ==
    /\ PathCreationShown
    /\ StartCall(Llm101nPathOp, CurriculumArgs)

\* curriculum.get('modules', []) of the current curriculum
CurrentModules ==
    IF /\ session.current_curriculum # None
       /\ session.current_curriculum[1].t = "dict"
       /\ "modules" \in Keys(session.current_curriculum[1])
       /\ Get(session.current_curriculum[1], "modules").t = "list"
    THEN Get(session.current_curriculum[1], "modules").v
    ELSE <<>>

\* "Generate Scaffold" of a module (display_build_view, lines 628-633, and
\* CurriculumGenerator.generate_project)
GenerateScaffold(i) ==
    /\ LearningInterfaceShown
    /\ i \in DOMAIN CurrentModules
    /\ StartCall([name |-> "generate_scaffold", module |-> CurrentModules[i]],
                 ScaffoldArgs)

\* module.get('id', f'module_{idx}') of the module at position i (idx = i - 1)
DefaultModuleId == <<"module_0">>

ModuleId(module, i) ==
    IF "id" \in Keys(module) THEN Get(module, "id").v[1] ELSE DefaultModuleId[i]

\* progress_map.get(module_id, 'pending'), progress_map being built from
\* get_progress of the session's user and path (lines 550-551, 572-573)
ModuleStatus(moduleId) ==
    LET rows == ProgressOf(progress, session.user_id[1], session.current_path_id[1]) IN
    IF \E r \in rows : r.module_id = moduleId
    THEN (CHOOSE r \in rows : r.module_id = moduleId).status
    ELSE "pending"

\* module['projects'] when module.get('projects') is truthy
ProjectsOf(module) ==
    IF "projects" \in Keys(module) /\ Get(module, "projects").t = "list"
    THEN Get(module, "projects").v
    ELSE <<>>

\* The status "Start" and "Start Module" write.
StartedStatus == "in_progress"

\* CompletedStatus under another name.
CompletedStatusDone == "done"

\* The status "Complete" writes.
CompletedStatus == "completed"

\* ExperimentJournal.start_experiment: the experiment record (the members
\* that later code reads)
NewExperiment(hypothesis) ==
    [ id         |-> Len(session.experiments) + 1,
      hypothesis |-> hypothesis,
      status     |-> "running" ]

\* db.update_progress(user_id, current_path_id, module_id, status) of a
\* handler
HandlerUpdateProgress(moduleId, status) ==
    progress' = UpdateProgressRows(progress, session.user_id[1],
                                   session.current_path_id[1], moduleId, status,
                                   None, None)

\* "Start" of a module's project (display_build_view, lines 588-599)
StartProject(i, j) ==
    /\ pc = "idle"
    /\ services = "ready"
    /\ LearningInterfaceShown
    /\ i \in DOMAIN CurrentModules
    /\ j \in DOMAIN ProjectsOf(CurrentModules[i])
    /\ Len(session.experiments) < MaxExperiments
    /\ LET experiment == NewExperiment(<<"Build", Get(ProjectsOf(CurrentModules[i])[j], "name").v[1]>>)
       IN  session' = [session EXCEPT !.current_experiment = Some(experiment),
                                      !.experiments = Append(@, experiment),
                                      !.current_module = Some(CurrentModules[i])]
    /\ HandlerUpdateProgress(ModuleId(CurrentModules[i], i), StartedStatus)
    /\ writes' = 1
    /\ op' = [name |-> "start_project"]
    /\ pc' = "done"
    /\ UNCHANGED <<engine, apiKey, ext, services, conn, args, params, requests, responses,
                   outcome, gcCalls, result, users, paths, shown, escaped>>

\* CompleteOffered that offers "Complete" whatever the status.
CompleteOfferedAlways(status) == TRUE

\* `if status == "in_progress"` (line 616): "Complete" is offered.
CompleteOffered(status) == status = "in_progress"

\* `if status != "in_progress"` (line 604): "Start Module" is offered.
StartModuleOffered(status) == status # "in_progress"

\* "Start Module" (display_build_view, lines 604-613), shown unless the
\* module is in progress
StartModule(i) ==
    /\ pc = "idle"
    /\ services = "ready"
    /\ LearningInterfaceShown
    /\ i \in DOMAIN CurrentModules
    /\ StartModuleOffered(ModuleStatus(ModuleId(CurrentModules[i], i)))
    /\ session' = [session EXCEPT !.current_module = Some(CurrentModules[i])]
    /\ HandlerUpdateProgress(ModuleId(CurrentModules[i], i), StartedStatus)
    /\ writes' = 1
    /\ op' = [name |-> "start_module"]
    /\ pc' = "done"
    /\ UNCHANGED <<engine, apiKey, ext, services, conn, args, params, requests, responses,
                   outcome, gcCalls, result, users, paths, shown, escaped>>

\* "Complete" (display_build_view, lines 616-626), shown while the module is
\* in progress: the status is written, then add_win is called before the
\* success message.
CompleteModule(i) ==
    /\ pc = "idle"
    /\ services = "ready"
    /\ LearningInterfaceShown
    /\ i \in DOMAIN CurrentModules
    /\ CompleteOffered(ModuleStatus(ModuleId(CurrentModules[i], i)))
    /\ HandlerUpdateProgress(ModuleId(CurrentModules[i], i), CompletedStatus)
    /\ writes' = 1
    /\ op' = [name |-> "complete_module"]
    /\ pc' = "done"
    /\ IF AddWinRaises(session)
       THEN /\ escaped' = Some(<<"AttributeError">>)
            /\ shown' = shown
       ELSE /\ escaped' = None
            /\ shown' = Append(shown, "success")
    /\ UNCHANGED <<engine, apiKey, ext, services, conn, args, params, requests, responses,
                   outcome, gcCalls, result, session, users, paths>>

\* ---------------------------------------------------------- input values

Temperatures == {None, Some(0), Some(3)}

MaxTokenArgs == {None, Some(0), Some(500)}

ResponseFormats == {None, Some(EmptyDict), Some(JsonObjectFormat)}

Levels == {"medium", "high"}

MessageLists == { <<SystemMsg, UserMsg>> }

CompletionArgs ==
    [ messages         : MessageLists,
      temperature      : Temperatures,
      max_tokens       : MaxTokenArgs,
      response_format  : ResponseFormats,
      verbosity        : Levels,
      reasoning_effort : Levels ]

PlainTexts == { <<>>, << <<"h", "i">> >> }

AdaptCurricula ==
    { PyDict(<< <<"title", PyStr(<<"T">>)>> >>), PyDict(<<>>) }

\* What the service returns to the page: a curriculum with a module, an
\* object with an error key, a truncated object, bare scalars.
PageTexts ==
    { <<LBRACE, Quote("title"), COLON, WS, Quote("T"), COMMA, WS,
        Quote("modules"), COLON, WS, <<"[", "m1", "]">>, RBRACE>>,
      <<LBRACE, Quote("error"), COLON, Quote("T"), RBRACE>>,
      <<LBRACE, Quote("title"), COLON, WS, Quote("T"), COMMA>>,
      <<Quote("T")>>,
      <<Quote("error")>>,
      << <<"1">> >> }

PageErrors ==
    { <<"max_tokens", "max_completion_tokens">>, <<"unsupported">> }

Usernames == { <<"a", "d", "a">> }

\* ------------------------------------------------------- specifications

InitCall ==
    /\ pc = "idle"
    /\ op = [name |-> "none"]
    /\ args = None
    /\ params = <<>>
    /\ requests = <<>>
    /\ responses = <<>>
    /\ outcome = NoOutcome
    /\ gcCalls = 0
    /\ result = NoOutcome
    /\ shown = <<>>
    /\ escaped = None
    /\ stack = <<>>
    /\ procs = [p \in Sessions |-> NoCall]
    /\ chat = <<>>
    /\ clock = 0
    /\ tmpFiles = {}

InitPage ==
    /\ session = NewSession
    /\ users = <<>>
    /\ paths = <<>>
    /\ progress = <<>>
    /\ writes = 0
    /\ conn = None

\* An engine was constructed with a key.
InitReady ==
    /\ apiKey = Some("sk-key")
    /\ services = "ready"

InitCompletion ==
    /\ engine \in Engines
    /\ InitCall
    /\ InitPage
    /\ InitReady

NextCompletion ==
    \/ \E a \in CompletionArgs : GenerateCompletion(a)
    \/ \E t \in PlainTexts : ServiceReturns(t)
    \/ \E m \in ErrorMessages : FirstSubmissionRaises(m)
    \/ \E m \in ErrorMessages : RetryRaises(m)
    \/ Finish

\* generate_completion called directly, with any options, under any
\* configuration, against a service that may answer anything.
SpecCompletion == InitCompletion /\ [][NextCompletion]_vars

InitReconfigured ==
    /\ engine = NewEngine(None, None, None)
    /\ InitCall
    /\ InitPage
    /\ InitReady

NextReconfigured ==
    \/ \E m \in ModelNames : Reconfigure(m)
    \/ NextCompletion

\* One engine, built from an empty environment, whose model is reassigned
\* between direct calls of generate_completion.
SpecReconfigured == InitReconfigured /\ [][NextReconfigured]_vars

\* The longest chat history passed to get_learning_guidance.
MaxHistory == 6

\* Messages of a stored conversation; a stored role may be any text.
HistoryMsgs ==
    { [role |-> "user", content |-> "h1"],
      [role |-> "assistant", content |-> "h2"],
      [role |-> "system", content |-> "h3"] }

ChatHistories == {None} \cup { Some(h) : h \in SeqsUpTo(HistoryMsgs, MaxHistory) }

Questions == {"q1", "q2"}

ModuleNames == {None, Some(""), Some("m1")}

InitGuidance ==
    /\ engine \in SomeEngines
    /\ InitCall
    /\ InitPage
    /\ InitReady

NextGuidance ==
    \/ \E q \in Questions, m \in ModuleNames, h \in ChatHistories :
           GetLearningGuidance(q, m, h)
    \/ GenerateCurriculum
    \/ GenerateProjectScaffold
    \/ AnalyzeCodeSubmission
    \/ \E c \in AdaptCurricula, n \in 0..1 : AdaptCurriculum(c, n)
    \/ \E t \in PlainTexts : ServiceReturns(t)
    \/ \E m \in PageErrors : FirstSubmissionRaises(m)
    \/ \E m \in PageErrors : RetryRaises(m)
    \/ Finish

\* The five operations of the application that call generate_completion,
\* called with any question and chat history.
SpecGuidance == InitGuidance /\ [][NextGuidance]_vars

\* How deep the directories of the model's repositories nest.
MaxTreeDepth == 3

File == [type |-> "file", name |-> "f", children |-> <<>>, fails |-> FALSE]

Dir(c) == [type |-> "dir", name |-> "d", children |-> c.children, fails |-> c.fails]

\* What a directory may hold when directories nest k deep below it: a
\* listing that raises, or at most one file followed by at most one
\* directory.
RECURSIVE DirContents(_)
DirContents(k) ==
    { [children |-> <<>>, fails |-> TRUE] }
        \cup { [children |-> files \o subs, fails |-> FALSE] :
                 files \in { <<>>, <<File>> },
                 subs \in IF k = 0 THEN { <<>> }
                          ELSE { <<>> } \cup { <<Dir(c)>> : c \in DirContents(k - 1) } }

Repos ==
    { [type |-> "dir", name |-> "", children |-> c.children, fails |-> c.fails] :
        c \in DirContents(MaxTreeDepth) }

InitWalk ==
    /\ engine = NewEngine(None, None, None)
    /\ InitCall
    /\ InitPage
    /\ InitReady

NextWalk ==
    \/ \E repo \in Repos, d \in 0..DefaultMaxDepth :
           GetDirectoryStructure(repo, d, "direct")
    \/ \E repo \in Repos : AnalyzeRepository(repo)
    \/ WalkStep
    \/ Finish

\* get_directory_structure on any repository of the model, directly with
\* any depth up to the default and from analyze_repository; a call in
\* progress goes on.
SpecWalk == InitWalk /\ [][NextWalk]_vars /\ WF_vars(WalkStep)

\* The calls the parallel sessions make: the statuses the handlers write,
\* for two modules of one path.
ParallelCalls ==
    { [ name |-> "update_progress", user_id |-> 1, path_id |-> 1,
        module_id |-> m, status |-> st, projects_completed |-> None,
        notes |-> None ] : m \in {"m1", "m2"}, st \in {StartedStatus, CompletedStatus} }

InitParallel ==
    /\ engine = NewEngine(None, None, None)
    /\ InitCall
    /\ InitPage
    /\ InitReady

NextParallel ==
    \/ \E p \in Sessions, c \in ParallelCalls : ProcEnter(p, c)
    \/ \E p \in Sessions : ProcSelect(p)
    \/ \E p \in Sessions : ProcWrite(p)
    \/ \E p \in Sessions : ProcBusy(p)
    \/ \E p \in Sessions : ProcCommit(p)

\* Two sessions of one user that call update_progress in parallel, through
\* the shared Database.
SpecParallel == InitParallel /\ [][NextParallel]_vars

InitStructured ==
    /\ engine \in SomeEngines
    /\ InitCall
    /\ InitPage
    /\ InitReady

NextStructured ==
    \/ GenerateCurriculum
    \/ GenerateProjectScaffold
    \/ AnalyzeCodeSubmission
    \/ \E c \in AdaptCurricula, n \in 0..1 : AdaptCurriculum(c, n)
    \/ \E t \in Texts : ServiceReturns(t)
    \/ \E m \in ErrorMessages : FirstSubmissionRaises(m)
    \/ \E m \in ErrorMessages : RetryRaises(m)
    \/ Finish

\* The four operations that ask for a JSON-shaped answer, against a service
\* that returns any text or raises any error.
SpecStructured == InitStructured /\ [][NextStructured]_vars

\* The calls made of the Database: two names, one path per call, three
\* (user, path, module) tuples under either status, with and without notes.
DbUsernames == { <<"a", "d", "a">>, <<"b", "o", "b">> }

DbTuples == { <<1, 1, "m1">>, <<1, 1, "m2">>, <<1, 2, "m1">> }

DbStatuses == { "in_progress", "completed" }

DbNotes == { None, Some("n") }

CreateUserCalls ==
    { [name |-> "create_user", username |-> u] : u \in DbUsernames }

CreateLearningPathCalls ==
    { [ name |-> "create_learning_path", user_id |-> 1, title |-> "T",
        source_type |-> "scratch",
        curriculum |-> PyDict(<< <<"title", PyStr(<<"T">>)>> >>) ] }

UpdateProgressCalls ==
    { [ name |-> "update_progress", user_id |-> t[1], path_id |-> t[2],
        module_id |-> t[3], status |-> st, projects_completed |-> None,
        notes |-> n ] : t \in DbTuples, st \in DbStatuses, n \in DbNotes }

GetProgressCalls ==
    { [name |-> "get_progress", user_id |-> 1, path_id |-> 1] }

DbOperations ==
    CreateUserCalls \cup CreateLearningPathCalls \cup UpdateProgressCalls
        \cup GetProgressCalls

InitDatabase ==
    /\ engine = NewEngine(None, None, None)
    /\ InitCall
    /\ InitPage
    /\ InitReady

NextDatabase ==
    \/ \E o \in DbOperations : DbOpen(o)
    \/ DbExecute
    \/ DbCommit
    \/ DbCommitRaises
    \/ DbClose
    \/ Finish

\* The Database called directly, one operation after another, with commits
\* that may fail.
SpecDatabase == InitDatabase /\ [][NextDatabase]_vars

\* update_progress with and without projects and notes, for two modules.
ProgressCalls ==
    { [ name |-> "update_progress", user_id |-> 1, path_id |-> 1,
        module_id |-> m, status |-> st, projects_completed |-> pr,
        notes |-> n ] :
        m \in {"m1", "m2"}, st \in DbStatuses, pr \in {None, Some(0), Some(2)},
        n \in DbNotes }

NextProgress ==
    \/ \E o \in ProgressCalls \cup GetProgressCalls : DbOpen(o)
    \/ DbExecute
    \/ DbCommit
    \/ DbCommitRaises
    \/ DbClose
    \/ Finish

\* update_progress and get_progress called one after another, with every
\* combination of the optional arguments.
SpecProgress == InitDatabase /\ [][NextProgress]_vars

Init ==
    /\ engine = NoEngine
    /\ apiKey \in ApiKeys
    /\ services = "none"
    /\ InitCall
    /\ InitPage

Next ==
    \/ InitServices
    \/ \E name \in Usernames : BeginBuilding(name)
    \/ NewLearningPath
    \/ \E i \in 1..MaxPaths : SelectPath(i)
    \/ QuickBuild
    \/ ScratchBuild
    \/ SyllabusBuild
    \/ GithubBuild
    \/ Llm101nPath
    \/ \E i \in 1..1 : GenerateScaffold(i)
    \/ \E t \in PageTexts : ServiceReturns(t)
    \/ \E m \in PageErrors : FirstSubmissionRaises(m)
    \/ \E m \in PageErrors : RetryRaises(m)
    \/ Finish

\* The page: a session that logs in, creates learning paths and asks for
\* scaffolds.
Spec == Init /\ [][Next]_vars

\* What the service returns in the learning specification: a curriculum
\* with a module, a truncated object.
LearningTexts ==
    { <<LBRACE, Quote("title"), COLON, WS, Quote("T"), COMMA, WS,
        Quote("modules"), COLON, WS, <<"[", "m1", "]">>, RBRACE>>,
      <<LBRACE, Quote("title"), COLON, WS, Quote("T"), COMMA>> }

\* A user has logged in: the state after "Begin Building".
InitLearning ==
    /\ engine \in SomeEngines
    /\ InitReady
    /\ InitCall
    /\ session = [NewSession EXCEPT !.user_id = Some(1),
                                    !.username = Some(<<"a", "d", "a">>)]
    /\ users = << <<"a", "d", "a">> >>
    /\ paths = <<>>
    /\ progress = <<>>
    /\ writes = 1
    /\ conn = None

NextLearning ==
    \/ QuickBuild
    \/ NewLearningPath
    \/ \E i \in 1..1 : GenerateScaffold(i)
    \/ \E i \in 1..1, j \in 1..1 : StartProject(i, j)
    \/ \E i \in 1..1 : StartModule(i)
    \/ \E i \in 1..1 : CompleteModule(i)
    \/ \E t \in LearningTexts : ServiceReturns(t)
    \/ \E m \in PageErrors : FirstSubmissionRaises(m)
    \/ \E m \in PageErrors : RetryRaises(m)
    \/ Finish

\* A logged-in user who creates paths by quick build and works on their
\* modules.
SpecLearning == InitLearning /\ [][NextLearning]_vars

(***************************************************************************)
(* The experiment journal (components/experiment_journal.py) as the app    *)
(* drives it: the project "Start" above, the quick experiment buttons of   *)
(* display_experiment_view and the two forms of display_journal.           *)
(***************************************************************************)

\* The descriptions of two of the quick experiment buttons (app.py 657-662)
QuickExperimentDescs ==
    { <<"Make loss go to zero on one training example">>,
      <<"Remove component X and measure impact">> }

\* What a user types into the hypothesis, result and insight fields.
JournalTexts == { <<>>, <<"t">> }

\* ExperimentJournal.start_experiment: the new record becomes the current
\* experiment and is appended to the list.
StartExperiment(s, experiment) ==
    [s EXCEPT !.current_experiment = Some(experiment),
              !.experiments = Append(@, experiment)]

\* ExperimentJournal.complete_experiment(result, insight): the session
\* state after the call and the value returned.  The current experiment is
\* the dict the list holds at position id, so the list shows the update.
CompleteExperiment(s, res, insight) ==
    IF s.current_experiment # None
    THEN LET exp == [s.current_experiment[1] EXCEPT !.status = "completed"]
         IN  [ session  |-> [s EXCEPT !.experiments[exp.id] = exp,
                                      !.current_experiment = None],
               returned |-> Some(exp) ]
    ELSE [ session |-> s, returned |-> None ]

\* A quick experiment button (display_experiment_view, lines 664-670)
QuickExperiment(desc) ==
    /\ pc = "idle"
    /\ services = "ready"
    /\ LearningInterfaceShown
    /\ Len(session.experiments) < MaxExperiments
    /\ session' = StartExperiment(session, NewExperiment(desc))
    /\ writes' = 0
    /\ op' = [name |-> "quick_experiment"]
    /\ pc' = "done"
    /\ UNCHANGED <<engine, apiKey, ext, services, conn, args, params, requests, responses,
                   outcome, gcCalls, result, users, paths, progress, shown, escaped>>

\* "Start Experiment" of the journal (display_journal, lines 101-129), shown
\* while there is no current experiment; an empty hypothesis starts nothing.
JournalStart(hypothesis) ==
    /\ pc = "idle"
    /\ services = "ready"
    /\ LearningInterfaceShown
    /\ session.current_experiment = None
    /\ Len(session.experiments) < MaxExperiments
    /\ session' = IF hypothesis # <<>>
                  THEN StartExperiment(session, NewExperiment(hypothesis))
                  ELSE session
    /\ writes' = 0
    /\ op' = [name |-> "journal_start", hypothesis |-> hypothesis]
    /\ pc' = "done"
    /\ UNCHANGED <<engine, apiKey, ext, services, conn, args, params, requests, responses,
                   outcome, gcCalls, result, users, paths, progress, shown, escaped>>

\* "Complete Experiment" of the journal (display_journal, lines 74-99), shown
\* while there is a current experiment; it needs a result and an insight.
JournalComplete(res, insight) ==
    /\ pc = "idle"
    /\ services = "ready"
    /\ LearningInterfaceShown
    /\ session.current_experiment # None
    /\ session' = IF res # <<>> /\ insight # <<>>
                  THEN CompleteExperiment(session, res, insight).session
                  ELSE session
    /\ writes' = 0
    /\ op' = [name |-> "journal_complete", result |-> res, insight |-> insight]
    /\ pc' = "done"
    /\ UNCHANGED <<engine, apiKey, ext, services, conn, args, params, requests, responses,
                   outcome, gcCalls, result, users, paths, progress, shown, escaped>>

NextJournal ==
    \/ QuickBuild
    \/ \E i \in 1..1, j \in 1..1 : StartProject(i, j)
    \/ \E desc \in QuickExperimentDescs : QuickExperiment(desc)
    \/ \E hypothesis \in JournalTexts : JournalStart(hypothesis)
    \/ \E res \in JournalTexts, insight \in JournalTexts : JournalComplete(res, insight)
    \/ \E t \in LearningTexts : ServiceReturns(t)
    \/ \E m \in PageErrors : FirstSubmissionRaises(m)
    \/ \E m \in PageErrors : RetryRaises(m)
    \/ Finish

\* A logged-in user who creates paths by quick build and runs experiments.
SpecJournal == InitLearning /\ [][NextJournal]_vars


(***************************************************************************)
(* The chat history (backend/database.py, lines 62-73 and 196-228).  The   *)
(* table stamps a row with CURRENT_TIMESTAMP, which has a resolution of    *)
(* one second.  ORDER BY timestamp leaves the order of rows of the same    *)
(* second to the query planner: every order is an outcome.                 *)
(***************************************************************************)

\* The default of get_chat_history's `limit`.
DefaultChatLimit == 50

\* The (user_id, path_id) pairs messages are filed under.
ChatKeys == { <<1, 1>>, <<1, 2>>, <<2, 1>> }

ChatRoles == { "user", "assistant" }

ChatLimits == { 0, 1, 2, DefaultChatLimit }

\* The row INSERT INTO chat_history adds.
ChatRow(userId, pathId, role, content) ==
    [ id        |-> Len(chat) + 1,
      user_id   |-> userId,
      path_id   |-> pathId,
      role      |-> role,
      content   |-> content,
      timestamp |-> clock ]

\* WHERE user_id = ? AND path_id = ?
ChatOf(rows, userId, pathId) ==
    SelectSeq(rows, LAMBDA r : r.user_id = userId /\ r.path_id = pathId)

\* ORDER BY timestamp DESC holds of a sequence of rows.
TimestampDesc(rows) ==
    \A i \in DOMAIN rows, j \in DOMAIN rows :
        i < j => rows[i].timestamp >= rows[j].timestamp

\* The orders in which ORDER BY timestamp DESC may deliver the rows.
TimestampDescOrders(rows) ==
    LET n == Len(rows)
        orders == { f \in [1..n -> 1..n] : \A i \in 1..n : \E j \in 1..n : f[j] = i }
    IN  { s \in { [i \in 1..n |-> rows[f[i]]] : f \in orders } : TimestampDesc(s) }

\* LIMIT ?
LimitRows(rows, limit) ==
    SubSeq(rows, 1, IF limit < Len(rows) THEN limit ELSE Len(rows))

\* reversed(rows)
Reversed(rows) == [i \in 1..Len(rows) |-> rows[Len(rows) + 1 - i]]

\* Database.add_chat_message(user_id, path_id, role, content)
AddChatMessage(userId, pathId, role, content) ==
    /\ pc = "idle"
    /\ Len(chat) < MaxChat
    /\ chat' = Append(chat, ChatRow(userId, pathId, role, content))
    /\ writes' = 1
    /\ op' = [name |-> "add_chat_message", user_id |-> userId, path_id |-> pathId]
    /\ pc' = "done"
    /\ UNCHANGED <<engine, apiKey, services, conn, args, params, requests, responses,
                   outcome, gcCalls, result, session, users, paths, progress, shown,
                   escaped, stack, procs, clock, tmpFiles>>

\* Database.get_chat_history(user_id, path_id, limit)
GetChatHistory(userId, pathId, limit) ==
    /\ pc = "idle"
    /\ \E rows \in TimestampDescOrders(ChatOf(chat, userId, pathId)) :
           result' = Value(Reversed(LimitRows(rows, limit)))
    /\ writes' = 0
    /\ op' = [name |-> "get_chat_history", user_id |-> userId, path_id |-> pathId,
              limit |-> limit]
    /\ pc' = "done"
    /\ UNCHANGED <<engine, apiKey, services, conn, args, params, requests, responses,
                   outcome, gcCalls, session, users, paths, progress, shown,
                   escaped, ext>>

\* A second passes.
Tick ==
    /\ pc = "idle"
    /\ clock < MaxClock
    /\ clock' = clock + 1
    /\ UNCHANGED <<page, users, paths, progress, stack, procs, chat, tmpFiles>>

NextChat ==
    \/ \E k \in ChatKeys, role \in ChatRoles : AddChatMessage(k[1], k[2], role, <<"c">>)
    \/ \E k \in ChatKeys, limit \in ChatLimits : GetChatHistory(k[1], k[2], limit)
    \/ Tick
    \/ Finish

\* Messages are filed and read back while the clock runs.
SpecChat == InitDatabase /\ [][NextChat]_vars

(***************************************************************************)
(* Uploaded files (utils/file_handlers.py, lines 10-54).  An upload is a   *)
(* name and the kind of bytes it holds; the file system is the set of      *)
(* temporary files that exist.                                             *)
(***************************************************************************)

\* self.supported_formats: the reader of each extension (lines 11-20)
SupportedFormats ==
    [ txt  |-> "read_text", md  |-> "read_markdown", pdf  |-> "read_pdf",
      json |-> "read_json", py  |-> "read_text",     js   |-> "read_text",
      html |-> "read_html", csv |-> "read_text" ]

\* str.lower() of the extensions uploads come with (without the dot)
LowerExt ==
    [ txt |-> "txt", TXT |-> "txt", json |-> "json", pdf |-> "pdf", PDF |-> "pdf",
      md |-> "md", html |-> "html", exe |-> "exe", none |-> "none" ]

\* What an upload holds: UTF-8 text that is no JSON, a JSON document, a
\* PDF, or bytes that are neither UTF-8 nor a PDF.
ContentKinds == { "text", "json", "pdf", "bytes" }

\* Uploads: os.path.splitext(name) and the content; "none" is a name
\* without an extension.
Uploads ==
    [ stem : { "a" }, ext : DOMAIN LowerExt, content : ContentKinds ]

\* handler(tmp_file_path): the reader returns the content or raises.
\* read_text, read_markdown and read_html open the file as UTF-8; read_json
\* runs json.load on it; read_pdf hands it to PyPDF2.PdfReader.
ReaderOutcome(reader, content) ==
    IF reader = "read_json"
    THEN IF content = "json" THEN Returned(<<content>>)
         ELSE IF content = "text" THEN Raised(<<"JSONDecodeError">>)
         ELSE Raised(<<"UnicodeDecodeError">>)
    ELSE IF reader = "read_pdf"
    THEN IF content = "pdf" THEN Returned(<<content>>) ELSE Raised(<<"PdfReadError">>)
    ELSE IF content \in {"text", "json"} THEN Returned(<<content>>)
         ELSE Raised(<<"UnicodeDecodeError">>)

\* tempfile.NamedTemporaryFile(delete=False, suffix=file_extension): a file
\* under a name no file has.
NewTmpFile(files, suffix) ==
    [ name   |-> CHOOSE n \in 1..(Cardinality(files) + 1) : \A f \in files : f.name # n,
      suffix |-> suffix ]

\* FileHandler.process_uploaded_file (lines 22-54): the files that exist
\* afterwards and the dict returned.  os.unlink (line 40) follows the
\* reader's call inside the try: a reader that raises skips it.
ProcessUploaded(files, upload) ==
    LET extension == LowerExt[upload.ext] IN
    IF extension \notin DOMAIN SupportedFormats
    THEN [ files |-> files,
           value |-> [success |-> FALSE, error |-> <<"Unsupported file format", extension>>,
                      supported |-> DOMAIN SupportedFormats] ]
    ELSE LET tmp  == NewTmpFile(files, extension)
             read == ReaderOutcome(SupportedFormats[extension], upload.content)
         IN  IF read.kind = "return"
             THEN [ files |-> (files \cup {tmp}) \ {tmp},
                    value |-> [success |-> TRUE, filename |-> <<upload.stem, upload.ext>>,
                               format |-> extension, content |-> read.text] ]
             ELSE [ files |-> files \cup {tmp},
                    value |-> [success |-> FALSE, error |-> <<"Error processing file">> \o read.error] ]

\* A call of process_uploaded_file
ProcessUploadedFile(upload) ==
    /\ pc = "idle"
    /\ Cardinality(tmpFiles) < MaxTmpFiles
    /\ tmpFiles' = ProcessUploaded(tmpFiles, upload).files
    /\ result' = Value(ProcessUploaded(tmpFiles, upload).value)
    /\ writes' = 0
    /\ op' = [name |-> "process_uploaded_file", upload |-> upload]
    /\ pc' = "done"
    /\ UNCHANGED <<engine, apiKey, services, conn, args, params, requests, responses,
                   outcome, gcCalls, session, users, paths, progress, shown,
                   escaped, stack, procs, chat, clock>>

NextUpload ==
    \/ \E upload \in Uploads : ProcessUploadedFile(upload)
    \/ Finish

\* Files are uploaded one after another.
SpecUpload == InitDatabase /\ [][NextUpload]_vars

\* ---------------------------------------------------------------- claims

TokenFields == {"max_tokens", "max_completion_tokens"}

\* The identifier begins with the characters of `prefix`, one by one.
HasPrefix(m, prefix) ==
    \A i \in DOMAIN prefix : i \in DOMAIN m /\ m[i] = prefix[i]

\* The dispatch table of the completion adapter.
TableFields(m) ==
    IF HasPrefix(m, GPT5) THEN {"max_completion_tokens", "verbosity", "reasoning_effort"}
    ELSE IF HasPrefix(m, O1) THEN {"max_completion_tokens"}
    ELSE {"temperature", "max_tokens"}

\* The caller asked for structured output: it passed a format naming a type.
AskedStructured(a) ==
    a.response_format # None /\ "type" \in DOMAIN a.response_format[1]

MentionsBoth(msg) ==
    /\ \E i \in DOMAIN msg : msg[i] = "max_tokens"
    /\ \E i \in DOMAIN msg : msg[i] = "max_completion_tokens"

FirstRaisedBoth ==
    /\ Len(responses) >= 1
    /\ responses[1].kind = "raise"
    /\ MentionsBoth(responses[1].error)

\* C1: the first request of generate_completion carries, on top of model and
\* messages, exactly the fields of the dispatch table for the configured
\* identifier (gpt-5*: max_completion_tokens, verbosity, reasoning_effort;
\* o1*: max_completion_tokens; otherwise temperature and max_tokens), and
\* response_format exactly when structured output was asked for; a supplied
\* max_tokens of 500 is the value of the token field.
C1_FirstRequestFieldSet ==
    Len(requests) >= 1 =>
        LET r == requests[1] IN
        /\ DOMAIN r = {"model", "messages"} \cup TableFields(engine.model)
                        \cup (IF AskedStructured(args) THEN {"response_format"} ELSE {})
        /\ r["model"] = engine.model
        /\ r["messages"] = args.messages
        /\ "verbosity" \in DOMAIN r => r["verbosity"] = args.verbosity
        /\ "reasoning_effort" \in DOMAIN r => r["reasoning_effort"] = args.reasoning_effort
        /\ args.max_tokens = Some(500) =>
               \A f \in TokenFields \cap DOMAIN r : r[f] = 500

\* gpt-5-m with max_tokens 500 has submitted max_completion_tokens = 500.
C1_Witness ==
    /\ pc = "await1"
    /\ engine.model = GPT5 \o <<"-", "m">>
    /\ args.max_tokens = Some(500)
    /\ AskedStructured(args)
    /\ requests[1]["max_completion_tokens"] = 500

\* C2: every submitted request, first attempt or retry, contains exactly one
\* of max_tokens and max_completion_tokens.
C2_ExactlyOneTokenField ==
    \A i \in DOMAIN requests : Cardinality(TokenFields \cap DOMAIN requests[i]) = 1

\* A retry has been submitted.
C2_Witness ==
    /\ Len(requests) = 2
    /\ "max_tokens" \in DOMAIN requests[1]
    /\ "max_completion_tokens" \in DOMAIN requests[2]

C4_AtMostTwoOutcomeOfLast ==
    /\ Len(requests) <= 2
    /\ Len(responses) <= Len(requests)
    /\ pc = "done" =>
           /\ Len(responses) = Len(requests)
           /\ outcome = responses[Len(responses)]

\* The retry failed with an error that names both fields again.
C4_Witness ==
    /\ pc = "done"
    /\ Len(requests) = 2
    /\ responses[2].kind = "raise"
    /\ MentionsBoth(responses[2].error)
    /\ responses[2] # responses[1]
    /\ outcome = responses[2]

\* C5: a first error that does not name both fields is re-raised unchanged
\* and no second request is submitted.
C5_OtherErrorPropagates ==
    (/\ Len(responses) >= 1
     /\ responses[1].kind = "raise"
     /\ ~MentionsBoth(responses[1].error)) =>
        /\ Len(requests) = 1
        /\ pc = "done"
        /\ outcome = responses[1]

\* A legacy request failed with an error naming only max_tokens.
C5_Witness ==
    /\ pc = "done"
    /\ "max_tokens" \in DOMAIN requests[1]
    /\ outcome = Raised(<<"max_tokens", "unsupported">>)
    /\ Len(requests) = 1


\* ------------------------------------------- claims: structured output

StructuredOps ==
    { "generate_curriculum", "generate_project_scaffold",
      "analyze_code_submission", "adapt_curriculum" }

EngineStructuredOps ==
    { "generate_curriculum", "generate_project_scaffold", "analyze_code_submission" }

\* The operation ended after the service returned a text.
EndedOnText == pc = "done" /\ outcome.kind = "return"

HasErrorKey(v) == v.t = "dict" /\ "error" \in Keys(v)

\* C6: at each of the four call sites that ask for JSON, a returned text that
\* is not valid JSON makes the operation return an object whose keys are
\* exactly error and raw_response, raw_response being the text verbatim.
C6_InvalidJsonGivesSentinel ==
    (EndedOnText /\ op.name \in StructuredOps /\ ~Loads(outcome.text).ok)
        => /\ result.kind = "return"
           /\ result.value.t = "dict"
           /\ Keys(result.value) = {"error", "raw_response"}
           /\ Get(result.value, "raw_response") = PyStr(Flatten(outcome.text))

\* adapt_curriculum ended on a text that is not valid JSON.
C6_Witness ==
    /\ EndedOnText
    /\ op.name = "adapt_curriculum"
    /\ ~Loads(outcome.text).ok
    /\ Len(outcome.text) > 0

\* C7: on valid JSON, generate_curriculum, generate_project_scaffold and
\* analyze_code_submission return the decoded value itself, and decoding
\* the serialised result gives an equal value.
C7_ValidJsonDecodedUnchanged ==
    (EndedOnText /\ op.name \in EngineStructuredOps /\ Loads(outcome.text).ok)
        => /\ result = Value(Loads(outcome.text).value)
           /\ Loads(Dumps(result.value)).ok
           /\ PyEq(Loads(Dumps(result.value)).value, result.value)

\* analyze_code_submission decoded an object of two members written with
\* whitespace.
C7_Witness ==
    /\ EndedOnText
    /\ op.name = "analyze_code_submission"
    /\ Loads(outcome.text).ok
    /\ result.kind = "return"
    /\ result.value.t = "dict"
    /\ Cardinality(Keys(result.value)) = 2
    /\ Dumps(result.value) # outcome.text

\* C8: a structured-output operation makes one call of generate_completion,
\* whether or not the text parses.
C8_OneCompletionCall ==
    /\ gcCalls <= 1
    /\ (EndedOnText /\ op.name \in StructuredOps) => gcCalls = 1

\* generate_curriculum ended with the sentinel after one call.
C8_Witness ==
    /\ EndedOnText
    /\ op.name = "generate_curriculum"
    /\ ~Loads(outcome.text).ok
    /\ HasErrorKey(result.value)
    /\ gcCalls = 1

\* ------------------------------------------------------ claims: the page

Range(seq) == { seq[i] : i \in DOMAIN seq }

\* C9: no result that carries the error key is stored in the session or in
\* a row, is given metadata, or has starter_code read from it.
C9_ErrorKeyCheckedBeforeUse ==
    /\ session.current_project # None => ~HasErrorKey(session.current_project[1])
    /\ session.current_curriculum # None => ~HasErrorKey(session.current_curriculum[1])
    /\ \A i \in DOMAIN paths : ~HasErrorKey(Loads(paths[i].curriculum_json).value)
    /\ (pc = "done" /\ op.name \in PathHandlers /\ result.kind = "return"
            /\ HasErrorKey(result.value))
         => "generated_from" \notin Keys(result.value)
    /\ (pc = "done" /\ op.name = "generate_scaffold" /\ result.kind = "return"
            /\ HasErrorKey(result.value))
         => "starter_code" \notin Range(shown)

\* Generate Scaffold ended with the sentinel.
C9_Witness ==
    /\ pc = "done"
    /\ op.name = "generate_scaffold"
    /\ result.kind = "return"
    /\ HasErrorKey(result.value)
    /\ "raw_response" \in Keys(result.value)

\* The generator gave the handler an object without the error key.
Generated(r) == r.kind = "return" /\ r.value.t = "dict" /\ "error" \notin Keys(r.value)

\* C10: a path-creation handler inserts a row and sets current_path_id and
\* current_curriculum only when generation gave an object without the error
\* key; otherwise it leaves rows and session as they were.  It calls
\* generate_completion once, and nothing is submitted after it ended until
\* an action is triggered again.  Rows are inserted by nothing else.
C10_FailedGenerationIsTerminal ==
    [][ /\ (pc # "done" /\ pc' = "done" /\ op.name \in PathHandlers)
          => /\ gcCalls' = 1
             /\ IF Generated(result')
                THEN /\ Len(paths') = Len(paths) + 1
                     /\ paths'[Len(paths')].curriculum_json = Dumps(result'.value)
                     /\ SubSeq(paths', 1, Len(paths)) = paths
                     /\ session'.current_path_id = Some(paths'[Len(paths')].id)
                     /\ session'.current_curriculum = Some(result'.value)
                ELSE /\ paths' = paths
                     /\ session' = session
        /\ paths' # paths
          => (pc # "done" /\ pc' = "done" /\ op.name \in PathHandlers /\ Generated(result'))
        /\ pc = "done" => (requests' = <<>> /\ gcCalls' = 0 /\ pc' = "idle")
      ]_vars

\* With one path stored, a second path-creation handler ended with the
\* sentinel and stored nothing.
C10_Witness ==
    /\ pc = "done"
    /\ op.name \in PathHandlers
    /\ result.kind = "return"
    /\ HasErrorKey(result.value)
    /\ Len(paths) = 1
    /\ session.current_path_id = None


\* A path-creation handler ended after generation gave the sentinel.
EndedOnSentinel ==
    /\ pc = "done"
    /\ op.name \in PathHandlers
    /\ result.kind = "return"
    /\ HasErrorKey(result.value)
    /\ "raw_response" \in Keys(result.value)

\* C11: a path-creation handler whose generation returned the sentinel has
\* shown an error message.
C11_SentinelShownAsError ==
    EndedOnSentinel => "error" \in Range(shown)

\* The scratch-build handler ended on the sentinel.
C11_Witness ==
    /\ EndedOnSentinel
    /\ op.name = "scratch_build"

Handlers == PathHandlers \cup {"generate_scaffold"}

\* A handler ended after the completion service raised.
EndedOnServiceError ==
    /\ pc = "done"
    /\ op.name \in Handlers
    /\ outcome.kind = "raise"

\* C12: when the completion service raises during a handler, the handler
\* catches the error and shows a message; nothing leaves the handler.
C12_ServiceErrorCaughtAndShown ==
    EndedOnServiceError => (escaped = None /\ "error" \in Range(shown))

\* The quick-build handler ended on an error of the service.
C12_Witness ==
    /\ EndedOnServiceError
    /\ op.name = "quick_build"
    /\ escaped = Some(outcome.error)


\* C13: with OPENAI_API_KEY absent or equal to the placeholder, the services
\* never come up, init_services has shown the configuration error once it
\* ran, and no request is ever submitted.
C13_NoCredentialNoRequest ==
    (apiKey = None \/ apiKey = Some("your-openai-api-key-here"))
        => /\ services \in {"none", "halted"}
           /\ services = "halted" => "Configuration Error" \in Range(shown)
           /\ engine = NoEngine
           /\ requests = <<>>
           /\ gcCalls = 0
           /\ pc = "idle"

\* init_services ran with the placeholder as key.
C13_Witness ==
    /\ apiKey = Some("your-openai-api-key-here")
    /\ services = "halted"


\* ---------------------------------------------------- claims: Database

SameTuple(r1, r2) ==
    /\ r1.user_id = r2.user_id
    /\ r1.path_id = r2.path_id
    /\ r1.module_id = r2.module_id

\* update_progress commits in this step.
UpdateProgressCommits ==
    /\ op.name = "update_progress"
    /\ pc = "db_commit"
    /\ pc' = "db_close"
    /\ result'.kind = "return"

\* C14: calls of update_progress made one after another leave at most one
\* row per (user_id, path_id, module_id); a call that commits leaves exactly
\* one row for its tuple, with the status of that call, and touches no row
\* of another tuple; nothing else changes the table.
C14_ProgressUpsert ==
    [][ /\ \A i, j \in DOMAIN progress' :
              SameTuple(progress'[i], progress'[j]) => i = j
        /\ UpdateProgressCommits
             => /\ \E i \in DOMAIN progress' :
                      /\ SameTuple(progress'[i], op)
                      /\ progress'[i].status = op.status
                /\ \A i \in DOMAIN progress :
                      /\ i \in DOMAIN progress'
                      /\ ~SameTuple(progress[i], op) => progress'[i] = progress[i]
        /\ progress' # progress => UpdateProgressCommits
      ]_vars

\* With two rows stored, update_progress has committed the status completed
\* to the older one.
C14_Witness ==
    /\ pc = "db_close"
    /\ op.name = "update_progress"
    /\ result.kind = "return"
    /\ Len(progress) = 2
    /\ SameTuple(progress[1], op)
    /\ progress[1].status = "completed"
    /\ op.status = "completed"

\* create_user gets its return value in this step.
CreateUserReturns ==
    /\ op.name = "create_user"
    /\ pc \in {"db", "db_commit"}
    /\ pc' = "db_close"
    /\ result'.kind = "return"

\* C15: rows of users are never changed or removed and no two hold the same
\* name; create_user returns the id of the row that holds the name; called
\* with a name the table holds, it returns without raising and leaves the
\* table as it is.
C15_CreateUserIdempotent ==
    [][ /\ \A i \in DOMAIN users : i \in DOMAIN users' /\ users'[i] = users[i]
        /\ \A i, j \in DOMAIN users' : users'[i] = users'[j] => i = j
        /\ CreateUserReturns
             => /\ result'.value \in DOMAIN users'
                /\ users'[result'.value] = op.username
        /\ (op.name = "create_user" /\ pc = "db"
                /\ \E i \in DOMAIN users : users[i] = op.username)
             => /\ pc' = "db_close"
                /\ result'.kind = "return"
                /\ users' = users
      ]_vars

\* With two users stored, create_user of the first one's name has found id 1.
C15_Witness ==
    /\ pc = "db_close"
    /\ op.name = "create_user"
    /\ Len(users) = 2
    /\ result = Value(1)
    /\ ~conn[1].pending

\* C16: a temperature or max_tokens the caller supplied, 0 included, is the
\* value the first request carries in the field the dispatch table gives
\* it; the engine's default is carried only when none was supplied.
C16_SuppliedOptionCarried ==
    Len(requests) >= 1 =>
        /\ "temperature" \in DOMAIN requests[1]
             => requests[1]["temperature"] =
                  IF args.temperature # None THEN args.temperature[1]
                  ELSE engine.temperature
        /\ \A f \in TokenFields \cap DOMAIN requests[1] :
             requests[1][f] =
                  IF args.max_tokens # None THEN args.max_tokens[1]
                  ELSE engine.max_tokens

\* A legacy model, temperature 0 supplied: the request carries the engine's
\* 0.7.
C16_Witness ==
    /\ pc = "await1"
    /\ op.name = "generate_completion"
    /\ args.temperature = Some(0)
    /\ engine.temperature = DefaultTemperature
    /\ "temperature" \in DOMAIN requests[1]
    /\ requests[1]["temperature"] = DefaultTemperature

\* The fields of a request that depend on the model family.
DialectFields ==
    {"temperature", "max_tokens", "max_completion_tokens", "verbosity",
     "reasoning_effort"}

\* C17: no step of generate_completion changes the engine's model,
\* temperature or max_tokens, nor the arguments of the caller; every request
\* carries the caller's message list as it was passed and the engine's
\* model; and the first request of a call has the fields of the dispatch
\* table for the model the engine has when the call starts, whatever model
\* earlier calls were made with.
C17_NoLocalStateMutated ==
    [][ /\ (pc # "idle" \/ pc' # "idle") => engine' = engine
        /\ (pc # "idle" /\ pc' # "idle") => args' = args
        /\ \A k \in DOMAIN requests' :
             /\ requests'[k]["messages"] = args'.messages
             /\ requests'[k]["model"] = engine'.model
        /\ (pc = "idle" /\ pc' = "await1")
             => DOMAIN requests'[1] \cap DialectFields = TableFields(engine.model)
      ]_vars

\* The engine was built for gpt-5-m and is now a legacy model: the call in
\* progress has submitted temperature and max_tokens, and the retry has sent
\* the same messages again.
C17_Witness ==
    /\ pc = "await2"
    /\ ~HasPrefix(engine.model, GPT5)
    /\ ~HasPrefix(engine.model, O1)
    /\ DOMAIN requests[1] \cap DialectFields = {"temperature", "max_tokens"}
    /\ Len(args.messages) > 0
    /\ requests[2]["messages"] = args.messages

\* C18 as stated: one user action submits at most one request to the
\* completion service and commits at most one write transaction.
C18_OneRequestOneWrite ==
    /\ Len(requests) <= 1
    /\ writes <= 1

\* C18: one user action calls generate_completion at most once and commits
\* at most one write transaction; the call submits one request, and a second
\* one only as the retry with the token field renamed, after the first was
\* refused with an error naming both token fields.
C18_OneCallOneWrite ==
    /\ gcCalls <= 1
    /\ writes <= 1
    /\ Len(requests) <= 2
    /\ Len(requests) = 2 =>
         /\ FirstRaisedBoth
         /\ "max_tokens" \in DOMAIN requests[1]
         /\ requests[2] = RenameTokenField(requests[1])

\* A quick build on a legacy model: the first request was refused, the
\* retry returned a curriculum and the path was stored.
C18_Witness ==
    /\ pc = "done"
    /\ op.name = "quick_build"
    /\ Len(requests) = 2
    /\ gcCalls = 1
    /\ writes = 1
    /\ Len(paths) >= 1

\* C19: a connection is open exactly while an operation runs; it is opened
\* on the committed tables and closed when the operation ends, by return or
\* by exception; the tables change only in a commit that succeeds, so what
\* an operation wrote and did not commit is gone with its connection.
C19_ConnectionScoped ==
    [][ /\ pc' \in {"idle", "done"} => conn' = None
        /\ pc' \in {"db", "db_commit", "db_close"} => conn' # None
        /\ (pc = "idle" /\ pc' = "db")
             => conn' = Some([users |-> users, paths |-> paths,
                              progress |-> progress, pending |-> FALSE])
        /\ (users' # users \/ paths' # paths \/ progress' # progress)
             => (pc = "db_commit" /\ result'.kind = "return")
      ]_vars

\* update_progress ended by exception after its INSERT: the connection is
\* closed and the table is empty as before.
C19_Witness ==
    /\ pc = "done"
    /\ op.name = "update_progress"
    /\ result.kind = "raise"
    /\ conn = None
    /\ progress = <<>>

\* The statuses of the progress table.
ProgressStatuses == {"not_started", "in_progress", "completed"}

\* C20: in every state the database is in, the status of every progress row
\* is one of not_started, in_progress and completed.
C20_StatusInEnum ==
    \A i \in DOMAIN progress : progress[i].status \in ProgressStatuses

\* "Complete" has been pressed on a module in progress: its row, the only
\* one of its tuple, says completed.
C20_Witness ==
    /\ pc = "done"
    /\ op.name = "complete_module"
    /\ Len(progress) = 1
    /\ progress[1].status = "completed"
    /\ progress[1].module_id = "m1"

\* The operations that call generate_completion with a fixed pair of
\* messages.
PairOperations ==
    { "generate_curriculum", "generate_project_scaffold",
      "analyze_code_submission", "adapt_curriculum" }

IsFileEntry(v) ==
    v.t = "dict" /\ "type" \in Keys(v) /\ Get(v, "type") = PyStr(<<"file">>)

\* The structure s stands for the directory node found at the given depth:
\* the marker when the depth has reached maxDepth, otherwise one entry for
\* each thing the directory holds, a directory's entry standing for it one
\* level down (or the error of a listing that raised).
RECURSIVE Represents(_, _, _, _)
Represents(s, node, depth, maxDepth) ==
    IF depth >= maxDepth THEN s = Truncated
    ELSE IF node.fails THEN Keys(s) = {"error"}
    ELSE /\ Keys(s) = { node.children[i].name : i \in DOMAIN node.children }
         /\ \A i \in DOMAIN node.children :
              LET c == node.children[i] IN
              IF c.type = "dir"
              THEN Represents(Get(s, c.name), c, depth + 1, maxDepth)
              ELSE IsFileEntry(Get(s, c.name))

\* How many directory levels the structure holds entries of.
RECURSIVE EntryLevels(_)
EntryLevels(s) ==
    IF s.t # "dict" \/ s = Truncated \/ s.v = <<>> \/ IsFileEntry(s) THEN 0
    ELSE LET below == { EntryLevels(s.v[i][2]) : i \in DOMAIN s.v }
         IN  1 + CHOOSE m \in below : \A k \in below : k <= m

C22_WalkSafe ==
    /\ \A i \in DOMAIN stack :
         /\ stack[i].depth = i - 1
         /\ stack[i].depth < op.max_depth
    /\ (pc = "done" /\ op.name = "get_directory_structure") =>
         /\ result.kind = "return"
         /\ Represents(result.value, op.repo, 0, op.max_depth)
         /\ op.caller = "analyze_repository" => EntryLevels(result.value) <= 2

\* C22: get_directory_structure lists only directories of a depth below
\* max_depth, returns a structure in which every directory of depth
\* max_depth is the marker {truncated: true} and every listed directory
\* has one entry for each thing it holds, with entries of at most two
\* directory levels when analyze_repository made the call; and every call
\* returns.
C22_ShallowListingTerminates ==
    /\ []C22_WalkSafe
    /\ (pc = "walk") ~> (pc = "done")

\* analyze_repository on a repository whose directories nest three deep:
\* the directory at depth 2 is the marker.
C22_Witness ==
    /\ pc = "done"
    /\ op.name = "get_directory_structure"
    /\ op.caller = "analyze_repository"
    /\ ~op.repo.fails
    /\ \E i \in DOMAIN op.repo.children :
         /\ op.repo.children[i].type = "dir"
         /\ \E j \in DOMAIN op.repo.children[i].children :
              /\ op.repo.children[i].children[j].type = "dir"
              /\ op.repo.children[i].children[j].children # <<>>
    /\ EntryLevels(result.value) = 2
    /\ Get(Get(result.value, "d"), "d") = Truncated

\* C23: in every session the application initialises, the entry tiny_wins
\* of the session state is a list; add_win with a known type returns the
\* record and leaves the list one longer; get_recent_wins(100), which the
\* sidebar counts, returns; and no exception leaves the Complete handler,
\* which logs a win.
C23_WinsAreAList ==
    /\ session.tiny_wins.t = "list"
    /\ \A a \in AchievementTypes :
         /\ AddWin(session, a).outcome = Value(Some([type |-> a]))
         /\ AddWin(session, a).tiny_wins.t = "list"
    /\ GetRecentWins(session, 100).kind = "return"
    /\ (pc = "done" /\ op.name = "complete_module") => escaped = None

\* Complete was pressed on a module in progress: the status is stored, and
\* add_win has raised AttributeError on the tracker that the session state
\* holds under tiny_wins; the sidebar's get_recent_wins raises too.
C23_Witness ==
    /\ pc = "done"
    /\ op.name = "complete_module"
    /\ session.tiny_wins.t = "TinyWinsTracker"
    /\ AddWin(session, "artifact").outcome = Raised(<<"AttributeError">>)
    /\ GetRecentWins(session, 100) = Raised(<<"TypeError">>)
    /\ escaped = Some(<<"AttributeError">>)
    /\ progress[1].status = "completed"

\* No update_progress call is in progress in any session.
AllCallsEnded ==
    \A p \in Sessions : procs[p].pc \in {"out", "closed"}

\* C24: when the update_progress calls of the sessions have ended, whatever
\* the order of their steps was, the progress table has at most one row for
\* every (user_id, path_id, module_id), and exactly one for the tuple of
\* every call that committed.
C24_ParallelUpsertOneRow ==
    AllCallsEnded =>
        /\ \A i, j \in DOMAIN progress : SameTuple(progress[i], progress[j]) => i = j
        /\ \A p \in Sessions :
             (procs[p].pc = "closed" /\ ~procs[p].raised) =>
                 Cardinality(ExistingProgress(progress, procs[p].call.user_id,
                                              procs[p].call.path_id,
                                              procs[p].call.module_id)) = 1

\* Both sessions called update_progress for module m1 of an empty table,
\* both committed: the table has two rows for the tuple.
C24_Witness ==
    /\ AllCallsEnded
    /\ \A p \in Sessions : /\ procs[p].pc = "closed"
                           /\ ~procs[p].raised
                           /\ procs[p].existing = None
                           /\ procs[p].call.module_id = "m1"
    /\ Len(progress) = 2
    /\ Cardinality(ExistingProgress(progress, 1, 1, "m1")) = 2

\* C25: a call of update_progress that commits on a tuple that has a row
\* leaves that row with the status and the notes of the call and with the
\* projects of the call, NULL standing for no list and for the empty list,
\* whatever the row held; the table keeps its length and every other row.
C25_UpdateReplacesWithoutMerging ==
    [][ (UpdateProgressCommits /\ ExistingProgress(progress, op.user_id, op.path_id,
                                                   op.module_id) # {})
          => LET id == CHOOSE i \in DOMAIN progress : SameTuple(progress[i], op) IN
             /\ Len(progress') = Len(progress)
             /\ progress'[id].status = op.status
             /\ progress'[id].notes = op.notes
             /\ progress'[id].projects_completed =
                   IF op.projects_completed \in {None, Some(0)} THEN None
                   ELSE op.projects_completed
             /\ \A i \in DOMAIN progress \ {id} : progress'[i] = progress[i]
      ]_vars

\* A status-only update of a row that has notes and projects: the UPDATE has
\* run on the connection, where the row has neither.
C25_Witness ==
    /\ pc = "db_commit"
    /\ op.name = "update_progress"
    /\ op.notes = None
    /\ op.projects_completed = None
    /\ Len(progress) = 2
    /\ SameTuple(progress[2], op)
    /\ progress[2].notes = Some("n")
    /\ progress[2].projects_completed = Some(2)
    /\ conn[1].progress[2].notes = None
    /\ conn[1].progress[2].projects_completed = None
    /\ conn[1].progress[1] = progress[1]

\* C26: current_path_id is set exactly when current_curriculum is; when
\* they are, a user is logged in, current_path_id is the id of a row of
\* learning_paths of that user, and the curriculum stored in the row, read
\* back, equals current_curriculum; and a handler of the learning interface
\* runs only with user_id and current_path_id set.
C26_SessionPathConsistent ==
    /\ (session.current_path_id = None) <=> (session.current_curriculum = None)
    /\ session.current_path_id # None =>
         /\ session.user_id # None
         /\ session.current_path_id[1] \in DOMAIN paths
         /\ LET row == paths[session.current_path_id[1]] IN
            /\ row.id = session.current_path_id[1]
            /\ row.user_id = session.user_id[1]
            /\ Loads(row.curriculum_json).ok
            /\ PyEq(Loads(row.curriculum_json).value, session.current_curriculum[1])
    /\ (pc # "idle" /\ op.name = "generate_scaffold") =>
         (session.user_id # None /\ session.current_path_id # None)

\* Two paths are stored and the older one was chosen from "Your Builds".
C26_Witness ==
    /\ pc = "idle"
    /\ Len(paths) = 2
    /\ session.current_path_id = Some(1)
    /\ session.current_curriculum # None
    /\ paths[1].user_id = session.user_id[1]

\* Every experiment has the id of its position in the list.
IdsInStartOrder ==
    \A k \in DOMAIN session.experiments : session.experiments[k].id = k

\* C27: at most one experiment is running and it is the current one, every
\* other experiment is completed, the ids are 1..n in start order, and
\* complete_experiment without a current experiment returns None and
\* changes nothing.
C27_OneRunningExperiment ==
    /\ IdsInStartOrder
    /\ \A k \in DOMAIN session.experiments :
          IF session.current_experiment # None /\ session.current_experiment[1].id = k
          THEN session.experiments[k].status = "running"
          ELSE session.experiments[k].status = "completed"
    /\ session.current_experiment # None =>
          session.current_experiment[1] \in Range(session.experiments)
    /\ session.current_experiment = None =>
          CompleteExperiment(session, <<"t">>, <<"t">>) = [session |-> session, returned |-> None]

\* A second experiment was started while the first was running: the first
\* is no longer current and is still running.
C27_Witness ==
    /\ pc = "done"
    /\ op.name \in {"quick_experiment", "start_project"}
    /\ Len(session.experiments) = 2
    /\ session.experiments[1].status = "running"
    /\ session.current_experiment = Some(session.experiments[2])

\* The last n members of a sequence.
LastRows(rows, n) ==
    SubSeq(rows, IF n < Len(rows) THEN Len(rows) - n + 1 ELSE 1, Len(rows))

\* C28: get_chat_history(user, path, limit) returns the min(limit, n) most
\* recently added messages of that user and path, the oldest first, and no
\* message of another user or path.
C28_ChatHistoryMostRecent ==
    (pc = "done" /\ op.name = "get_chat_history") =>
        /\ result.value = LastRows(ChatOf(chat, op.user_id, op.path_id), op.limit)
        /\ \A i \in DOMAIN result.value :
              /\ result.value[i].user_id = op.user_id
              /\ result.value[i].path_id = op.path_id

\* Two messages of one user and path were added in the same second, and a
\* read with limit 1 returned the older of them.
C28_Witness ==
    /\ pc = "done"
    /\ op.name = "get_chat_history"
    /\ op.limit = 1
    /\ LET mine == ChatOf(chat, op.user_id, op.path_id)
       IN  /\ Len(mine) = 2
           /\ mine[1].timestamp = mine[2].timestamp
           /\ result.value = <<mine[1]>>

\* The rows of progress' that a step added or changed.
WrittenRows == { k \in DOMAIN progress' : k \notin DOMAIN progress \/ progress'[k] # progress[k] }

\* C29: a step gives a progress row the status 'completed' only as the
\* "Complete" handler, and only a row that was 'in_progress'; the rows that
\* "Start Module" and a project's "Start" write are 'in_progress' afterwards,
\* whatever the status was.
C29_CompletedOnlyFromInProgress ==
    [][ /\ \A k \in WrittenRows :
             progress'[k].status = CompletedStatus =>
                 /\ op'.name = "complete_module"
                 /\ k \in DOMAIN progress
                 /\ progress[k].status = StartedStatus
        /\ (pc = "idle" /\ op'.name \in {"start_module", "start_project"}) =>
             /\ \A k \in WrittenRows : progress'[k].status = StartedStatus
             /\ \E k \in DOMAIN progress' :
                   /\ progress'[k].user_id = session.user_id[1]
                   /\ progress'[k].path_id = session.current_path_id[1]
                   /\ progress'[k].status = StartedStatus
      ]_vars

\* A module was completed and the page offers "Start Module" for it again.
C29_Witness ==
    /\ pc = "idle"
    /\ LearningInterfaceShown
    /\ 1 \in DOMAIN CurrentModules
    /\ ModuleStatus(ModuleId(CurrentModules[1], 1)) = CompletedStatus
    /\ ENABLED StartModule(1)

\* C30: process_uploaded_file returns a dict whatever the upload; with an
\* unsupported extension and with a reader that fails its success is false;
\* and on return the temporary files are those that existed before the
\* call.
C30_UploadLeavesNoFile ==
    [][ (pc = "idle" /\ op'.name = "process_uploaded_file") =>
          /\ result'.kind = "return"
          /\ LowerExt[op'.upload.ext] \notin DOMAIN SupportedFormats =>
                ~result'.value.success
          /\ ( /\ LowerExt[op'.upload.ext] \in DOMAIN SupportedFormats
               /\ ReaderOutcome(SupportedFormats[LowerExt[op'.upload.ext]],
                                op'.upload.content).kind = "raise" ) =>
                ~result'.value.success
          /\ tmpFiles' = tmpFiles
      ]_vars

\* A .json upload that holds no JSON was refused, and its temporary file
\* exists after the return.
C30_Witness ==
    /\ pc = "done"
    /\ op.name = "process_uploaded_file"
    /\ op.upload.ext = "json"
    /\ op.upload.content = "text"
    /\ ~result.value.success
    /\ \E f \in tmpFiles : f.suffix = "json"

====
